---------------------------- MODULE Spec2Model ----------------------------
(***************************************************************************)
(* A model of the SynQ QuantumVM (SynQ/vm/src/vm.rs, SynQ/vm/src/opcode.rs)*)
(* and of the PQC shims it calls (SynQ/pqc-shims/src).                     *)
(*                                                                         *)
(* The VM's fields are the variables stack, memory, code, data, pc,        *)
(* call_stack and halted.  load_bytecode is one action; execute is a loop, *)
(* modelled by ExecuteCall (entry), Step (one execute_instruction) and     *)
(* ExecuteReturn (loop exit).  Instruction semantics are pure operators on *)
(* a record of the VM's fields, written in the order of the Rust code so   *)
(* that the effects made before an early `?` return are kept.              *)
(*                                                                         *)
(* Numbers: TLC's integers are 32-bit, so a usize (64-bit on the targets   *)
(* the node is built for) is a little-endian tuple of four 16-bit limbs,   *)
(* and an i32 is an integer kept in [-2^31, 2^31-1] by explicit wrapping.  *)
(***************************************************************************)
EXTENDS Integers, Sequences, FiniteSets, TLC

(***************************************************************************)
(* Bounds of the model.                                                    *)
(***************************************************************************)
\* execute calls made after one load_bytecode
MaxRuns == 2

(***************************************************************************)
(* Fixed-width integers.                                                   *)
(***************************************************************************)
Limb == 256 * 256
I32_MAX == (128 * 256 * 256 - 1) * 256 + 255
I32_MIN == (0 - I32_MAX) - 1

\* usize::from(n) for a small natural n
W(n) == <<n % Limb, n \div Limb, 0, 0>>

\* the carry out of limb k (1..4) of x + y
RECURSIVE WCarry(_, _, _)
WCarry(x, y, k) ==
    IF k = 0 THEN 0 ELSE (x[k] + y[k] + WCarry(x, y, k - 1)) \div Limb

\* x + y on usize, wrapping at 2^64 (the operands the VM adds never wrap)
WAdd(x, y) == [k \in 1..4 |-> (x[k] + y[k] + WCarry(x, y, k - 1)) % Limb]

\* x + y overflows a usize
WAddOverflows(x, y) == WCarry(x, y, 4) > 0

\* x < y on usize
WLt(x, y) ==
    \E k \in 1..4 : /\ x[k] < y[k]
                    /\ \A j \in (k + 1)..4 : x[j] = y[j]

WLe(x, y) == x = y \/ WLt(x, y)

\* a usize known to be below 2^31, as an integer
WToNat(x) == x[2] * Limb + x[1]

WIsSmall(x) == x[3] = 0 /\ x[4] = 0 /\ x[2] < 128 * 256

\* u16::from_le_bytes / u32::from_le_bytes, widened to usize (`as usize`)
U16LE(b0, b1) == <<b1 * 256 + b0, 0, 0, 0>>
U32LE(b0, b1, b2, b3) == <<b1 * 256 + b0, b3 * 256 + b2, 0, 0>>

\* i32::from_le_bytes: two's complement
I32LE(b0, b1, b2, b3) ==
    LET hi == b3 * 256 + b2
        lo == b1 * 256 + b0
    IN  IF hi >= 128 * 256 THEN (hi - Limb) * Limb + lo ELSE hi * Limb + lo

\* the 16-bit halves of an i32's two's complement pattern
I32Hi(a) == IF a < 0 THEN (a \div Limb) + Limb ELSE a \div Limb
I32Lo(a) == a % Limb

\* `v as usize` for an i32 v: sign extension to 64 bits
I32AsUsize(v) ==
    IF v < 0 THEN <<I32Lo(v), I32Hi(v), Limb - 1, Limb - 1>>
    ELSE <<I32Lo(v), I32Hi(v), 0, 0>>

\* a 32-bit pattern given by its halves, as an i32
I32FromHalves(hi, lo) ==
    IF hi >= 128 * 256 THEN (hi - Limb) * Limb + lo ELSE hi * Limb + lo

\* a + b does not fit an i32
AddOverflows(a, b) ==
    \/ b > 0 /\ a > I32_MAX - b
    \/ b < 0 /\ a < I32_MIN - b

\* i32::wrapping_add
WrappingAdd(a, b) ==
    IF b > 0 /\ a > I32_MAX - b THEN ((a + I32_MIN) + b) + I32_MIN
    ELSE IF b < 0 /\ a < I32_MIN - b THEN ((a - I32_MIN) + b) - I32_MIN
    ELSE a + b

\* a - b does not fit an i32
SubOverflows(a, b) ==
    \/ b < 0 /\ a > I32_MAX + b
    \/ b > 0 /\ a < I32_MIN + b

\* i32::wrapping_sub
WrappingSub(a, b) ==
    IF b < 0 /\ a > I32_MAX + b THEN ((a + I32_MIN) - b) + I32_MIN
    ELSE IF b > 0 /\ a < I32_MIN + b THEN ((a - I32_MIN) - b) - I32_MIN
    ELSE a - b

\* |a| for a # I32_MIN
Abs(a) == IF a < 0 THEN 0 - a ELSE a

\* a * b does not fit an i32
MulOverflows(a, b) ==
    IF a = 0 \/ b = 0 THEN FALSE
    ELSE IF a = I32_MIN THEN b # 1
    ELSE IF b = I32_MIN THEN a # 1
    ELSE IF (a > 0) = (b > 0) THEN Abs(a) > I32_MAX \div Abs(b)
    ELSE IF Abs(b) = 1 THEN FALSE
    ELSE Abs(a) > (I32_MAX \div Abs(b)) + (IF (I32_MAX % Abs(b)) + 1 = Abs(b) THEN 1 ELSE 0)

\* (x * y) mod 2^16 for 16-bit x, y, without leaving 32 bits
MulMod16(x, y) == (((x * (y \div 256)) % 256) * 256 + x * (y % 256)) % Limb

\* i32::wrapping_mul: the low 32 bits of the product of the two patterns
WrappingMul(a, b) ==
    LET ah == I32Hi(a)
        al == I32Lo(a)
        bh == I32Hi(b)
        bl == I32Lo(b)
        t1 == al * (bl \div 256)
        t2 == al * (bl % 256)
        low == (t1 % 256) * 256 + t2
        lo == low % Limb
        hi == ((t1 \div 256) + (low \div Limb) + MulMod16(ah, bl) + MulMod16(al, bh)) % Limb
    IN  I32FromHalves(hi, lo)

\* Rust's `/` on i32 truncates toward zero (b # 0, and not I32_MIN / -1)
TruncDiv(a, b) ==
    IF b = I32_MIN THEN (IF a = I32_MIN THEN 1 ELSE 0)
    ELSE IF a = I32_MIN
    THEN (IF b > 0 THEN (0 - ((0 - (a + b)) \div b)) - 1
          ELSE ((0 - (a - b)) \div (0 - b)) + 1)
    ELSE IF (a < 0) = (b < 0) THEN Abs(a) \div Abs(b)
    ELSE 0 - (Abs(a) \div Abs(b))

(***************************************************************************)
(* Values (enum Value) and errors (enum VMError).                          *)
(***************************************************************************)
\* Value::I32(v), Value::I64(v), Value::Bytes(v), Value::Bool(v); every
\* value is a record of the same shape, `tag` naming the variant in use.
\* An i64 is its 64-bit two's complement pattern, in four 16-bit limbs.
I32(v) == [tag |-> "I32", int |-> v, wide |-> W(0), bytes |-> <<>>, bool |-> FALSE]
I64(v) == [tag |-> "I64", int |-> 0, wide |-> v, bytes |-> <<>>, bool |-> FALSE]
Bytes(v) == [tag |-> "Bytes", int |-> 0, wide |-> W(0), bytes |-> v, bool |-> FALSE]
Bool(v) == [tag |-> "Bool", int |-> 0, wide |-> W(0), bytes |-> <<>>, bool |-> v]

\* the result of a call: Ok(()), Err(VMError) or a panic of the thread
Ok == [kind |-> "Ok", arg |-> W(0), msg |-> ""]
InvalidBytecode(m) == [kind |-> "InvalidBytecode", arg |-> W(0), msg |-> m]
StackUnderflow == [kind |-> "StackUnderflow", arg |-> W(0), msg |-> ""]
StackOverflow == [kind |-> "StackOverflow", arg |-> W(0), msg |-> ""]
InvalidInstruction(b) == [kind |-> "InvalidInstruction", arg |-> W(b), msg |-> ""]
InvalidAddress(a) == [kind |-> "InvalidAddress", arg |-> a, msg |-> ""]
RuntimeError(m) == [kind |-> "RuntimeError", arg |-> W(0), msg |-> m]
Panic(m) == [kind |-> "Panic", arg |-> W(0), msg |-> m]
\* no call has returned yet
Pending == [kind |-> "Pending", arg |-> W(0), msg |-> ""]

IsErr(r) == r.kind \notin {"Ok", "Panic", "Pending"}

\* accessors: [ok, val] with err the error when ~ok
as_i32(v) ==
    IF v.tag = "I32" THEN [ok |-> TRUE, val |-> v.int, err |-> Ok]
    ELSE [ok |-> FALSE, val |-> 0, err |-> RuntimeError("Expected i32")]

\* `*v as i64`: the sign-extended pattern of an i32
I32AsI64(v) ==
    IF v < 0 THEN <<I32Lo(v), I32Hi(v), Limb - 1, Limb - 1>>
    ELSE <<I32Lo(v), I32Hi(v), 0, 0>>

as_i64(v) ==
    IF v.tag = "I64" THEN [ok |-> TRUE, val |-> v.wide, err |-> Ok]
    ELSE IF v.tag = "I32" THEN [ok |-> TRUE, val |-> I32AsI64(v.int), err |-> Ok]
    ELSE [ok |-> FALSE, val |-> W(0), err |-> RuntimeError("Expected i64")]

as_bytes(v) ==
    IF v.tag = "Bytes" THEN [ok |-> TRUE, val |-> v.bytes, err |-> Ok]
    ELSE [ok |-> FALSE, val |-> <<>>, err |-> RuntimeError("Expected bytes")]

\* as_bool with the fault of taking a negative integer as false
as_bool_positive(v) ==
    IF v.tag = "Bool" THEN [ok |-> TRUE, val |-> v.bool, err |-> Ok]
    ELSE IF v.tag = "I32" THEN [ok |-> TRUE, val |-> (v.int > 0), err |-> Ok]
    ELSE [ok |-> FALSE, val |-> FALSE, err |-> RuntimeError("Expected bool")]

as_bool(v) ==
    IF v.tag = "Bool" THEN [ok |-> TRUE, val |-> v.bool, err |-> Ok]
    ELSE IF v.tag = "I32" THEN [ok |-> TRUE, val |-> (v.int # 0), err |-> Ok]
    ELSE [ok |-> FALSE, val |-> FALSE, err |-> RuntimeError("Expected bool")]

(***************************************************************************)
(* Opcodes (enum OpCode, #[repr(u8)]).                                     *)
(***************************************************************************)
OP_Push == 1
OP_Pop == 2
OP_Dup == 3
OP_Swap == 4
OP_Add == 16
OP_Sub == 17
OP_Mul == 18
OP_Div == 19
OP_Eq == 32
OP_Ne == 33
OP_Lt == 34
OP_Le == 35
OP_Gt == 36
OP_Ge == 37
OP_Jump == 48
OP_JumpIf == 49
OP_Call == 50
OP_Return == 51
OP_Load == 64
OP_Store == 65
OP_LoadImm == 66
OP_DilithiumVerify == 128
OP_KyberKeyExchange == 129
OP_FalconVerify == 130
OP_SphincsVerify == 131
OP_Print == 240
OP_Halt == 255

OpCodes ==
    {OP_Push, OP_Pop, OP_Dup, OP_Swap, OP_Add, OP_Sub, OP_Mul, OP_Div,
     OP_Eq, OP_Ne, OP_Lt, OP_Le, OP_Gt, OP_Ge, OP_Jump, OP_JumpIf, OP_Call,
     OP_Return, OP_Load, OP_Store, OP_LoadImm, OP_DilithiumVerify,
     OP_KyberKeyExchange, OP_FalconVerify, OP_SphincsVerify, OP_Print, OP_Halt}

\* OpCode::try_from(value)
OpCode_try_from(value) ==
    IF value \in OpCodes THEN [ok |-> TRUE, val |-> value, err |-> Ok]
    ELSE [ok |-> FALSE, val |-> value, err |-> InvalidInstruction(value)]

(***************************************************************************)
(* The bytecode header.                                                    *)
(***************************************************************************)
\* Header::MAGIC = 0x51564D00, as the usize it is compared through
MAGIC == U32LE(0, 77, 86, 81)
\* the length below which Header::parse reports "Header too short"
HEADER_MIN_LEN == 12

\* bytes[i] of a slice (0-based); the caller has checked i < bytes.len()
At(bytes, i) == bytes[i + 1]

\* bytes[from..to] (0-based, `to` excluded)
Slice(bytes, from, to) == SubSeq(bytes, from + 1, to)

\* Header::parse(bytes).  Indexing past the end of the slice panics.
Header_parse(bytes) ==
    IF Len(bytes) < HEADER_MIN_LEN
    THEN [res |-> InvalidBytecode("Header too short")]
    ELSE LET magic == U32LE(At(bytes, 0), At(bytes, 1), At(bytes, 2), At(bytes, 3))
         IN  IF magic # MAGIC
             THEN [res |-> InvalidBytecode("Invalid magic number")]
             ELSE IF \E i \in 4..14 : i >= Len(bytes)
             THEN [res |-> Panic("index out of bounds")]
             ELSE [res |-> Ok,
                   magic |-> magic,
                   version |-> At(bytes, 4),
                   header_length |-> U16LE(At(bytes, 5), At(bytes, 6)),
                   code_length |-> U32LE(At(bytes, 7), At(bytes, 8), At(bytes, 9), At(bytes, 10)),
                   data_length |-> U32LE(At(bytes, 11), At(bytes, 12), At(bytes, 13), At(bytes, 14))]

(***************************************************************************)
(* The PQC shims the VM calls.                                             *)
(***************************************************************************)
\* the sizes of Dilithium3
DILITHIUM_PUBLIC_KEY_BYTES == 1952
DILITHIUM_SECRET_KEY_BYTES == 4016
DILITHIUM_SIGNATURE_BYTES == 3293

\* dilithium::keygen(): a placeholder that returns zeroed keys
dilithium_keygen ==
    [public_key |-> [i \in 1..DILITHIUM_PUBLIC_KEY_BYTES |-> 0],
     secret_key |-> [i \in 1..DILITHIUM_SECRET_KEY_BYTES |-> 0]]

\* dilithium::sign(msg, sk): a placeholder that returns a zeroed signature
dilithium_sign(msg, sk) == [i \in 1..DILITHIUM_SIGNATURE_BYTES |-> 0]

\* dilithium::verify(msg, sig, pk), falcon::verify, sphincs::verify:
\* placeholders that always return true
dilithium_verify(msg, sig, pk) == TRUE
falcon_verify(msg, sig, pk) == TRUE
sphincs_verify(msg, sig, pk) == TRUE

\* kyber::decaps(ct_bytes, sk_bytes): the shared secret is computed by the
\* external ML-KEM library; `secret` is the answer it gives
kyber_decaps(ct_bytes, sk_bytes, secret) == secret

(***************************************************************************)
(* QuantumVM: a record of the struct's fields, with what the VM has done   *)
(* to its environment: `printed`, the values written by println!, and      *)
(* `pqc`, the shim calls made, each [fn, args] with args in the order of   *)
(* the callee's parameters.                                                *)
(***************************************************************************)
\* the capacity push() enforces
STACK_LIMIT == 1000

EmptyMemory == [a \in {} |-> I32(0)]

\* QuantumVM::new()
QuantumVM_new ==
    [stack |-> <<>>, memory |-> EmptyMemory, code |-> <<>>, data |-> <<>>,
     pc |-> 0, call_stack |-> <<>>, halted |-> FALSE,
     printed |-> <<>>, pqc |-> <<>>]

Ret(vm, res) == [vm |-> vm, res |-> res]

\* load_bytecode with the fault of rejecting a blob that ends with its data
load_bytecode_strict(vm, bytecode) ==
    LET header == Header_parse(bytecode)
    IN  IF header.res # Ok THEN Ret(vm, header.res)
        ELSE LET header_end == header.header_length
                 code_end == WAdd(header_end, header.code_length)
                 data_end == WAdd(code_end, header.data_length)
             IN  IF WLe(W(Len(bytecode)), data_end)
                 THEN Ret(vm, InvalidBytecode("Bytecode too short"))
                 ELSE Ret([vm EXCEPT
                             !.code = Slice(bytecode, WToNat(header_end), WToNat(code_end)),
                             !.data = Slice(bytecode, WToNat(code_end), WToNat(data_end)),
                             !.pc = 0,
                             !.halted = FALSE],
                          Ok)

\* load_bytecode with the fault of taking every byte after the code as data
load_bytecode_greedy(vm, bytecode) ==
    LET header == Header_parse(bytecode)
    IN  IF header.res # Ok THEN Ret(vm, header.res)
        ELSE LET header_end == header.header_length
                 code_end == WAdd(header_end, header.code_length)
                 data_end == WAdd(code_end, header.data_length)
             IN  IF WLt(W(Len(bytecode)), data_end)
                 THEN Ret(vm, InvalidBytecode("Bytecode too short"))
                 ELSE Ret([vm EXCEPT
                             !.code = Slice(bytecode, WToNat(header_end), WToNat(code_end)),
                             !.data = Slice(bytecode, WToNat(code_end), Len(bytecode)),
                             !.pc = 0,
                             !.halted = FALSE],
                          Ok)

\* QuantumVM::load_bytecode(bytecode)
\* load_bytecode with the fault of a data section that begins where the
\* code begins
load_bytecode_overlapping(vm, bytecode) ==
    LET header == Header_parse(bytecode)
    IN  IF header.res # Ok THEN Ret(vm, header.res)
        ELSE LET header_end == header.header_length
                 code_end == WAdd(header_end, header.code_length)
                 data_end == WAdd(code_end, header.data_length)
             IN  IF WLt(W(Len(bytecode)), data_end)
                 THEN Ret(vm, InvalidBytecode("Bytecode too short"))
                 ELSE Ret([vm EXCEPT
                             !.code = Slice(bytecode, WToNat(header_end), WToNat(code_end)),
                             !.data = Slice(bytecode, WToNat(header_end), WToNat(data_end)),
                             !.pc = 0,
                             !.halted = FALSE],
                          Ok)

\* load_bytecode with the fault of emptying stack, memory and call stack
load_bytecode_clearing(vm, bytecode) ==
    LET header == Header_parse(bytecode)
    IN  IF header.res # Ok THEN Ret(vm, header.res)
        ELSE LET header_end == header.header_length
                 code_end == WAdd(header_end, header.code_length)
                 data_end == WAdd(code_end, header.data_length)
             IN  IF WLt(W(Len(bytecode)), data_end)
                 THEN Ret(vm, InvalidBytecode("Bytecode too short"))
                 ELSE Ret([vm EXCEPT
                             !.code = Slice(bytecode, WToNat(header_end), WToNat(code_end)),
                             !.data = Slice(bytecode, WToNat(code_end), WToNat(data_end)),
                             !.pc = 0,
                             !.halted = FALSE,
                             !.stack = <<>>,
                             !.memory = EmptyMemory,
                             !.call_stack = <<>>],
                          Ok)

\* load_bytecode with the fault of a reset that precedes the length
\* check
load_bytecode_rewinding(vm, bytecode) ==
    LET header == Header_parse(bytecode)
    IN  IF header.res # Ok THEN Ret(vm, header.res)
        ELSE LET header_end == header.header_length
                 code_end == WAdd(header_end, header.code_length)
                 data_end == WAdd(code_end, header.data_length)
             IN  IF WLt(W(Len(bytecode)), data_end)
                 THEN Ret([vm EXCEPT !.pc = 0, !.halted = FALSE],
                          InvalidBytecode("Bytecode too short"))
                 ELSE Ret([vm EXCEPT
                             !.code = Slice(bytecode, WToNat(header_end), WToNat(code_end)),
                             !.data = Slice(bytecode, WToNat(code_end), WToNat(data_end)),
                             !.pc = 0,
                             !.halted = FALSE],
                          Ok)

\* load_bytecode with the fault of leaving the halted flag as it is
load_bytecode_halted(vm, bytecode) ==
    LET header == Header_parse(bytecode)
    IN  IF header.res # Ok THEN Ret(vm, header.res)
        ELSE LET header_end == header.header_length
                 code_end == WAdd(header_end, header.code_length)
                 data_end == WAdd(code_end, header.data_length)
             IN  IF WLt(W(Len(bytecode)), data_end)
                 THEN Ret(vm, InvalidBytecode("Bytecode too short"))
                 ELSE Ret([vm EXCEPT
                             !.code = Slice(bytecode, WToNat(header_end), WToNat(code_end)),
                             !.data = Slice(bytecode, WToNat(code_end), WToNat(data_end)),
                             !.pc = 0],
                          Ok)

load_bytecode(vm, bytecode) ==
    LET header == Header_parse(bytecode)
    IN  IF header.res # Ok THEN Ret(vm, header.res)
        ELSE LET header_end == header.header_length
                 code_end == WAdd(header_end, header.code_length)
                 data_end == WAdd(code_end, header.data_length)
             IN  IF WLt(W(Len(bytecode)), data_end)
                 THEN Ret(vm, InvalidBytecode("Bytecode too short"))
                 ELSE Ret([vm EXCEPT
                             !.code = Slice(bytecode, WToNat(header_end), WToNat(code_end)),
                             !.data = Slice(bytecode, WToNat(code_end), WToNat(data_end)),
                             !.pc = 0,
                             !.halted = FALSE],
                          Ok)

\* push with the fault of dropping the value when the stack is full
push_dropping(vm, value) ==
    IF Len(vm.stack) >= STACK_LIMIT THEN Ret(vm, Ok)
    ELSE Ret([vm EXCEPT !.stack = Append(@, value)], Ok)

\* push with the fault of an off-by-one limit, `len > 1000`
push_faulty(vm, value) ==
    IF Len(vm.stack) > STACK_LIMIT THEN Ret(vm, StackOverflow)
    ELSE Ret([vm EXCEPT !.stack = Append(@, value)], Ok)

\* QuantumVM::push(value)
push(vm, value) ==
    IF Len(vm.stack) >= STACK_LIMIT THEN Ret(vm, StackOverflow)
    ELSE Ret([vm EXCEPT !.stack = Append(@, value)], Ok)

\* pop with the fault of answering Value::I32(0) on an empty stack
pop_defaulting(vm) ==
    IF Len(vm.stack) = 0
    THEN [vm |-> vm, res |-> Ok, val |-> I32(0)]
    ELSE [vm |-> [vm EXCEPT !.stack = SubSeq(@, 1, Len(@) - 1)],
          res |-> Ok,
          val |-> vm.stack[Len(vm.stack)]]

\* QuantumVM::pop(): the value popped is `val`
pop(vm) ==
    IF Len(vm.stack) = 0
    THEN [vm |-> vm, res |-> StackUnderflow, val |-> I32(0)]
    ELSE [vm |-> [vm EXCEPT !.stack = SubSeq(@, 1, Len(@) - 1)],
          res |-> Ok,
          val |-> vm.stack[Len(vm.stack)]]

\* QuantumVM::peek()
peek(vm) ==
    IF Len(vm.stack) = 0
    THEN [vm |-> vm, res |-> StackUnderflow, val |-> I32(0)]
    ELSE [vm |-> vm, res |-> Ok, val |-> vm.stack[Len(vm.stack)]]

\* QuantumVM::read_i32()
read_i32(vm) ==
    IF vm.pc + 4 > Len(vm.code)
    THEN [vm |-> vm, res |-> InvalidAddress(W(vm.pc)), val |-> 0]
    ELSE [vm |-> [vm EXCEPT !.pc = @ + 4],
          res |-> Ok,
          val |-> I32LE(At(vm.code, vm.pc), At(vm.code, vm.pc + 1),
                        At(vm.code, vm.pc + 2), At(vm.code, vm.pc + 3))]

\* QuantumVM::read_u32(), the value widened to usize
read_u32(vm) ==
    IF vm.pc + 4 > Len(vm.code)
    THEN [vm |-> vm, res |-> InvalidAddress(W(vm.pc)), val |-> W(0)]
    ELSE [vm |-> [vm EXCEPT !.pc = @ + 4],
          res |-> Ok,
          val |-> U32LE(At(vm.code, vm.pc), At(vm.code, vm.pc + 1),
                        At(vm.code, vm.pc + 2), At(vm.code, vm.pc + 3))]

\* read_bytes with the fault of refusing the bytes that end the code
read_bytes_strict(vm, len) ==
    IF WLe(W(Len(vm.code)), WAdd(W(vm.pc), len))
    THEN [vm |-> vm, res |-> InvalidAddress(W(vm.pc)), val |-> <<>>]
    ELSE [vm |-> [vm EXCEPT !.pc = @ + WToNat(len)],
          res |-> Ok,
          val |-> Slice(vm.code, vm.pc, vm.pc + WToNat(len))]

\* QuantumVM::read_bytes(len), len a usize
read_bytes(vm, len) ==
    IF WLt(W(Len(vm.code)), WAdd(W(vm.pc), len))
    THEN [vm |-> vm, res |-> InvalidAddress(W(vm.pc)), val |-> <<>>]
    ELSE [vm |-> [vm EXCEPT !.pc = @ + WToNat(len)],
          res |-> Ok,
          val |-> Slice(vm.code, vm.pc, vm.pc + WToNat(len))]

\* the `?` operator: an error or a panic returns at once with the VM as
\* it is, and otherwise the code that follows runs on the outcome
Try(r, Then(_)) == IF r.res # Ok THEN Ret(r.vm, r.res) ELSE Then(r)

\* Ok(val) or Err(err) of an accessor, after a pop that left the VM as `vm`
Accessed(vm, a) ==
    IF a.ok THEN [vm |-> vm, res |-> Ok, val |-> a.val] ELSE Ret(vm, a.err)

\* self.pop()?.as_i32()?
pop_i32(vm) == Try(pop(vm), LAMBDA p : Accessed(p.vm, as_i32(p.val)))

\* self.pop()?.as_bytes()?.to_vec()
pop_bytes(vm) == Try(pop(vm), LAMBDA p : Accessed(p.vm, as_bytes(p.val)))

\* self.pop()?.as_bool()?
pop_bool(vm) == Try(pop(vm), LAMBDA p : Accessed(p.vm, as_bool(p.val)))

\* pop_b_then_a with the fault of taking the first value popped as `a`
pop_a_then_b(vm) ==
    Try(pop_i32(vm), LAMBDA pb :
    Try(pop_i32(pb.vm), LAMBDA pa :
        [vm |-> pa.vm, res |-> Ok, a |-> pb.val, b |-> pa.val]))

\* let b = self.pop()?.as_i32()?; let a = self.pop()?.as_i32()?;
pop_b_then_a(vm) ==
    Try(pop_i32(vm), LAMBDA pb :
    Try(pop_i32(pb.vm), LAMBDA pa :
        [vm |-> pa.vm, res |-> Ok, a |-> pa.val, b |-> pb.val]))

(***************************************************************************)
(* execute_instruction, one operator per match arm.  Each takes the VM     *)
(* after `self.pc += 1`.  `env` is what the VM does not decide:            *)
(* env.overflow_checks, whether the build panics on arithmetic overflow    *)
(* (debug profile) or wraps (release profile), and env.secret, the shared  *)
(* secret the ML-KEM library returns.                                      *)
(***************************************************************************)
exec_Push(vm) == Try(read_i32(vm), LAMBDA r : push(r.vm, I32(r.val)))

exec_Pop(vm) == Try(pop(vm), LAMBDA p : Ret(p.vm, Ok))

exec_Dup(vm) == Try(peek(vm), LAMBDA p : push(p.vm, p.val))

\* exec_Swap with the fault of pushing the two values back as they were
exec_Swap_unchanged(vm) ==
    Try(pop(vm), LAMBDA a :
    Try(pop(a.vm), LAMBDA b :
    Try(push(b.vm, b.val), LAMBDA q : push(q.vm, a.val))))

exec_Swap(vm) ==
    Try(pop(vm), LAMBDA a :
    Try(pop(a.vm), LAMBDA b :
    Try(push(b.vm, a.val), LAMBDA q : push(q.vm, b.val))))

\* exec_Add with the fault of popping the left operand without using it:
\* the right operand is added to itself
exec_Add_faulty(vm, env) ==
    Try(pop_b_then_a(vm), LAMBDA p : push(p.vm, I32(WrappingAdd(p.b, p.b))))

exec_Add(vm, env) ==
    Try(pop_b_then_a(vm), LAMBDA p :
        IF env.overflow_checks /\ AddOverflows(p.a, p.b)
        THEN Ret(p.vm, Panic("attempt to add with overflow"))
        ELSE push(p.vm, I32(WrappingAdd(p.a, p.b))))

exec_Sub(vm, env) ==
    Try(pop_b_then_a(vm), LAMBDA p :
        IF env.overflow_checks /\ SubOverflows(p.a, p.b)
        THEN Ret(p.vm, Panic("attempt to subtract with overflow"))
        ELSE push(p.vm, I32(WrappingSub(p.a, p.b))))

exec_Mul(vm, env) ==
    Try(pop_b_then_a(vm), LAMBDA p :
        IF env.overflow_checks /\ MulOverflows(p.a, p.b)
        THEN Ret(p.vm, Panic("attempt to multiply with overflow"))
        ELSE push(p.vm, I32(WrappingMul(p.a, p.b))))

\* exec_Div with the fault of answering 0 for a division by zero
exec_Div_trapping(vm) ==
    Try(pop_b_then_a(vm), LAMBDA p :
        IF p.b = 0 THEN push(p.vm, I32(0))
        ELSE IF p.a = I32_MIN /\ p.b = 0 - 1
        THEN Ret(p.vm, Panic("attempt to divide with overflow"))
        ELSE push(p.vm, I32(TruncDiv(p.a, p.b))))

\* i32::MIN / -1 panics in every build profile
exec_Div(vm) ==
    Try(pop_b_then_a(vm), LAMBDA p :
        IF p.b = 0 THEN Ret(p.vm, RuntimeError("Division by zero"))
        ELSE IF p.a = I32_MIN /\ p.b = 0 - 1
        THEN Ret(p.vm, Panic("attempt to divide with overflow"))
        ELSE push(p.vm, I32(TruncDiv(p.a, p.b))))

exec_Eq(vm) == Try(pop_b_then_a(vm), LAMBDA p : push(p.vm, Bool(p.a = p.b)))

exec_Ne(vm) == Try(pop_b_then_a(vm), LAMBDA p : push(p.vm, Bool(p.a # p.b)))

exec_Lt(vm) == Try(pop_b_then_a(vm), LAMBDA p : push(p.vm, Bool(p.a < p.b)))

exec_Le(vm) == Try(pop_b_then_a(vm), LAMBDA p : push(p.vm, Bool(p.a <= p.b)))

exec_Gt(vm) == Try(pop_b_then_a(vm), LAMBDA p : push(p.vm, Bool(p.a > p.b)))

exec_Ge(vm) == Try(pop_b_then_a(vm), LAMBDA p : push(p.vm, Bool(p.a >= p.b)))

\* if addr >= self.code.len() { return Err(InvalidAddress(addr)) } self.pc = addr
jump_to(vm, addr) ==
    IF WLe(W(Len(vm.code)), addr) THEN Ret(vm, InvalidAddress(addr))
    ELSE Ret([vm EXCEPT !.pc = WToNat(addr)], Ok)

\* exec_Jump with the fault of an off-by-one bounds check, `addr > len`
exec_Jump_faulty(vm) ==
    Try(read_u32(vm), LAMBDA r :
        IF WLt(W(Len(r.vm.code)), r.val) THEN Ret(r.vm, InvalidAddress(r.val))
        ELSE Ret([r.vm EXCEPT !.pc = WToNat(r.val)], Ok))

exec_Jump(vm) == Try(read_u32(vm), LAMBDA r : jump_to(r.vm, r.val))

\* exec_JumpIf with the fault of popping the condition before it reads
\* the target
exec_JumpIf_popping(vm) ==
    Try(pop_bool(vm), LAMBDA condition :
    Try(read_u32(condition.vm), LAMBDA r :
        IF condition.val THEN jump_to(r.vm, r.val)
        ELSE Ret(r.vm, Ok)))

\* exec_JumpIf with the fault of checking the target of a branch that is
\* not taken
exec_JumpIf_eager(vm) ==
    Try(read_u32(vm), LAMBDA r :
    Try(pop_bool(r.vm), LAMBDA condition :
        IF condition.val THEN jump_to(condition.vm, r.val)
        ELSE Ret(jump_to(condition.vm, r.val).vm, jump_to(condition.vm, r.val).res)))

exec_JumpIf(vm) ==
    Try(read_u32(vm), LAMBDA r :
    Try(pop_bool(r.vm), LAMBDA condition :
        IF condition.val THEN jump_to(condition.vm, r.val)
        ELSE Ret(condition.vm, Ok)))

\* exec_Call with the fault of saving the return address before the target
\* is checked
exec_Call_eager(vm) ==
    Try(read_u32(vm), LAMBDA r :
        IF WLe(W(Len(r.vm.code)), r.val)
        THEN Ret([r.vm EXCEPT !.call_stack = Append(@, r.vm.pc)], InvalidAddress(r.val))
        ELSE Ret([r.vm EXCEPT !.call_stack = Append(@, r.vm.pc),
                              !.pc = WToNat(r.val)],
                 Ok))

\* exec_Call with the fault of saving the target as the return address
exec_Call_faulty(vm) ==
    Try(read_u32(vm), LAMBDA r :
        IF WLe(W(Len(r.vm.code)), r.val) THEN Ret(r.vm, InvalidAddress(r.val))
        ELSE Ret([r.vm EXCEPT !.call_stack = Append(@, WToNat(r.val)),
                              !.pc = WToNat(r.val)],
                 Ok))

exec_Call(vm) ==
    Try(read_u32(vm), LAMBDA r :
        IF WLe(W(Len(r.vm.code)), r.val) THEN Ret(r.vm, InvalidAddress(r.val))
        ELSE Ret([r.vm EXCEPT !.call_stack = Append(@, r.vm.pc),
                              !.pc = WToNat(r.val)],
                 Ok))

\* exec_Return with the fault of going on when there is no return address
exec_Return_skipping(vm) ==
    IF Len(vm.call_stack) > 0
    THEN Ret([vm EXCEPT !.pc = vm.call_stack[Len(vm.call_stack)],
                        !.call_stack = SubSeq(@, 1, Len(@) - 1)],
             Ok)
    ELSE Ret(vm, Ok)

exec_Return(vm) ==
    IF Len(vm.call_stack) > 0
    THEN Ret([vm EXCEPT !.pc = vm.call_stack[Len(vm.call_stack)],
                        !.call_stack = SubSeq(@, 1, Len(@) - 1)],
             Ok)
    ELSE Ret(vm, RuntimeError("Return without call"))

\* self.memory.get(&addr)
\* memory_get with the fault of a zero for an address that was never stored
memory_get_defaulting(vm, addr) ==
    IF addr \in DOMAIN vm.memory THEN push(vm, vm.memory[addr])
    ELSE push(vm, I32(0))

\* if let Some(value) = self.memory.get(&addr) { push(value.clone())? }
\* else { return Err(InvalidAddress(addr)) }
memory_get(vm, addr) ==
    IF addr \in DOMAIN vm.memory THEN push(vm, vm.memory[addr])
    ELSE Ret(vm, InvalidAddress(addr))

\* self.memory.insert(addr, value)
memory_insert(vm, addr, value) ==
    Ret([vm EXCEPT !.memory =
           [a \in (DOMAIN vm.memory) \cup {addr} |->
              IF a = addr THEN value ELSE vm.memory[a]]],
        Ok)

\* exec_Load with the fault of moving the value out of memory
exec_Load_moving(vm) ==
    Try(pop_i32(vm), LAMBDA p :
        LET got == memory_get(p.vm, I32AsUsize(p.val))
        IN  Ret([got.vm EXCEPT !.memory =
                   [a \in (DOMAIN @) \ {I32AsUsize(p.val)} |-> @[a]]],
                got.res))

exec_Load(vm) ==
    Try(pop_i32(vm), LAMBDA p : memory_get(p.vm, I32AsUsize(p.val)))

\* exec_Store with the fault of popping the value before the address
exec_Store_swapped(vm) ==
    Try(pop(vm), LAMBDA q :
    Try(pop_i32(q.vm), LAMBDA p : memory_insert(p.vm, I32AsUsize(p.val), q.val)))

exec_Store(vm) ==
    Try(pop_i32(vm), LAMBDA p :
    Try(pop(p.vm), LAMBDA q : memory_insert(q.vm, I32AsUsize(p.val), q.val)))

exec_LoadImm(vm) ==
    Try(read_u32(vm), LAMBDA r :
    Try(read_bytes(r.vm, r.val), LAMBDA b : push(b.vm, Bytes(b.val))))

\* the three pops shared by the verify arms: the locals are named as in
\* the source, public_key being the first value popped
pop_verify_args(vm) ==
    Try(pop_bytes(vm), LAMBDA p1 :
    Try(pop_bytes(p1.vm), LAMBDA p2 :
    Try(pop_bytes(p2.vm), LAMBDA p3 :
        [vm |-> p3.vm, res |-> Ok,
         public_key |-> p1.val, message |-> p2.val, signature |-> p3.val])))

\* a shim call enters the VM's log
called(vm, fn, args) == [vm EXCEPT !.pqc = Append(@, [fn |-> fn, args |-> args])]

\* let result = dilithium::verify(&message, &signature, &public_key);
exec_DilithiumVerify(vm) ==
    Try(pop_verify_args(vm), LAMBDA a :
        push(called(a.vm, "dilithium::verify", <<a.message, a.signature, a.public_key>>),
             Bool(dilithium_verify(a.message, a.signature, a.public_key))))

\* let result = falcon::verify(&message, &signature, &public_key);
exec_FalconVerify(vm) ==
    Try(pop_verify_args(vm), LAMBDA a :
        push(called(a.vm, "falcon::verify", <<a.message, a.signature, a.public_key>>),
             Bool(falcon_verify(a.message, a.signature, a.public_key))))

\* let result = sphincs::verify(&message, &signature, &public_key);
exec_SphincsVerify(vm) ==
    Try(pop_verify_args(vm), LAMBDA a :
        push(called(a.vm, "sphincs::verify", <<a.message, a.signature, a.public_key>>),
             Bool(sphincs_verify(a.message, a.signature, a.public_key))))

\* the two pops of the KyberKeyExchange arm, the locals named as in the
\* source, private_key being the first value popped
pop_decaps_args(vm) ==
    Try(pop_bytes(vm), LAMBDA p1 :
    Try(pop_bytes(p1.vm), LAMBDA p2 :
        [vm |-> p2.vm, res |-> Ok, private_key |-> p1.val, ciphertext |-> p2.val]))

\* let shared_secret = kyber::decaps(&ciphertext, &private_key);
exec_KyberKeyExchange(vm, env) ==
    Try(pop_decaps_args(vm), LAMBDA a :
        push(called(a.vm, "kyber::decaps", <<a.ciphertext, a.private_key>>),
             Bytes(kyber_decaps(a.ciphertext, a.private_key, env.secret))))

\* exec_Print with the fault of a line written when the stack is empty
exec_Print_logging(vm) ==
    IF Len(vm.stack) = 0
    THEN Ret([vm EXCEPT !.printed = Append(@, Bytes(<<>>))], StackUnderflow)
    ELSE Try(pop(vm), LAMBDA p : Ret([p.vm EXCEPT !.printed = Append(@, p.val)], Ok))

\* println!("{:?}", value)
exec_Print(vm) ==
    Try(pop(vm), LAMBDA p : Ret([p.vm EXCEPT !.printed = Append(@, p.val)], Ok))

exec_Halt(vm) == Ret([vm EXCEPT !.halted = TRUE], Ok)

\* the match on the opcode
dispatch(opcode, vm, env) ==
    CASE opcode = OP_Push -> exec_Push(vm)
      [] opcode = OP_Pop -> exec_Pop(vm)
      [] opcode = OP_Dup -> exec_Dup(vm)
      [] opcode = OP_Swap -> exec_Swap(vm)
      [] opcode = OP_Add -> exec_Add(vm, env)
      [] opcode = OP_Sub -> exec_Sub(vm, env)
      [] opcode = OP_Mul -> exec_Mul(vm, env)
      [] opcode = OP_Div -> exec_Div(vm)
      [] opcode = OP_Eq -> exec_Eq(vm)
      [] opcode = OP_Ne -> exec_Ne(vm)
      [] opcode = OP_Lt -> exec_Lt(vm)
      [] opcode = OP_Le -> exec_Le(vm)
      [] opcode = OP_Gt -> exec_Gt(vm)
      [] opcode = OP_Ge -> exec_Ge(vm)
      [] opcode = OP_Jump -> exec_Jump(vm)
      [] opcode = OP_JumpIf -> exec_JumpIf(vm)
      [] opcode = OP_Call -> exec_Call(vm)
      [] opcode = OP_Return -> exec_Return(vm)
      [] opcode = OP_Load -> exec_Load(vm)
      [] opcode = OP_Store -> exec_Store(vm)
      [] opcode = OP_LoadImm -> exec_LoadImm(vm)
      [] opcode = OP_DilithiumVerify -> exec_DilithiumVerify(vm)
      [] opcode = OP_KyberKeyExchange -> exec_KyberKeyExchange(vm, env)
      [] opcode = OP_FalconVerify -> exec_FalconVerify(vm)
      [] opcode = OP_SphincsVerify -> exec_SphincsVerify(vm)
      [] opcode = OP_Print -> exec_Print(vm)
      [] opcode = OP_Halt -> exec_Halt(vm)

\* decoded with the fault of leaving the pc on the opcode
decoded_still(vm, opcode, env) ==
    IF ~opcode.ok THEN Ret(vm, opcode.err)
    ELSE dispatch(opcode.val, vm, env)

\* decoded with the fault of stepping over a byte that is no opcode
decoded_advancing(vm, opcode, env) ==
    IF ~opcode.ok THEN Ret([vm EXCEPT !.pc = @ + 1], opcode.err)
    ELSE dispatch(opcode.val, [vm EXCEPT !.pc = @ + 1], env)

\* let opcode = OpCode::try_from(..)?; self.pc += 1; match opcode {..}
decoded(vm, opcode, env) ==
    IF ~opcode.ok THEN Ret(vm, opcode.err)
    ELSE dispatch(opcode.val, [vm EXCEPT !.pc = @ + 1], env)

\* QuantumVM::execute_instruction()
execute_instruction(vm, env) ==
    IF vm.pc >= Len(vm.code) THEN Ret(vm, InvalidAddress(W(vm.pc)))
    ELSE decoded(vm, OpCode_try_from(At(vm.code, vm.pc)), env)

(***************************************************************************)
(* The state machine: one VM instance and the host that drives it.         *)
(***************************************************************************)
VARIABLES
    \* the fields of QuantumVM
    stack, memory, code, data, pc, call_stack, halted,
    \* what the VM has written with println!, and the shim calls it has made
    printed, pqc,
    \* the build profile: TRUE when arithmetic overflow panics
    overflow_checks,
    \* the host is inside execute()
    running,
    \* a panic has unwound out of the VM
    aborted,
    \* the API call last made ("new", "load_bytecode", "execute"), what it
    \* returned, and the argument of the last load_bytecode call
    last_op, result, bytecode,
    \* the address and the byte of the instruction last fetched
    fetched,
    \* load_bytecode calls made, and execute calls made since the last one
    loads, runs,
    \* a Value the host holds, for the accessors of impl Value
    value,
    \* a second QuantumVM of the process with the calls made on it: a record
    \* [vm, running, aborted, last_op, result, bytecode, fetched, loads, runs]
    other

vars ==
    <<stack, memory, code, data, pc, call_stack, halted, printed, pqc,
      overflow_checks, running, aborted, last_op, result, bytecode, fetched,
      loads, runs, value>>

\* the second instance after QuantumVM::new()
OtherNew ==
    [vm |-> QuantumVM_new, running |-> FALSE, aborted |-> FALSE,
     last_op |-> "new", result |-> Ok, bytecode |-> <<>>,
     fetched |-> [at |-> 0, byte |-> 0, any |-> FALSE], loads |-> 0, runs |-> 0]

\* the VM as a record
VM ==
    [stack |-> stack, memory |-> memory, code |-> code, data |-> data,
     pc |-> pc, call_stack |-> call_stack, halted |-> halted,
     printed |-> printed, pqc |-> pqc]

\* the VM's fields become those of the record v
SetVM(v) ==
    /\ stack' = v.stack
    /\ memory' = v.memory
    /\ code' = v.code
    /\ data' = v.data
    /\ pc' = v.pc
    /\ call_stack' = v.call_stack
    /\ halted' = v.halted
    /\ printed' = v.printed
    /\ pqc' = v.pqc

NoFetch == [at |-> 0, byte |-> 0, any |-> FALSE]

\* let mut vm = QuantumVM::new();
Init ==
    /\ stack = QuantumVM_new.stack
    /\ memory = QuantumVM_new.memory
    /\ code = QuantumVM_new.code
    /\ data = QuantumVM_new.data
    /\ pc = QuantumVM_new.pc
    /\ call_stack = QuantumVM_new.call_stack
    /\ halted = QuantumVM_new.halted
    /\ printed = <<>>
    /\ pqc = <<>>
    /\ overflow_checks \in BOOLEAN
    /\ running = FALSE
    /\ aborted = FALSE
    /\ last_op = "new"
    /\ result = Ok
    /\ bytecode = <<>>
    /\ fetched = NoFetch
    /\ loads = 0
    /\ runs = 0
    /\ value = I32(0)
    /\ other = OtherNew

\* the shared secrets the ML-KEM library may return
Secrets == {<<7, 7>>, <<9>>}

\* load_bytecode has returned r.res and left the VM as r.vm
Returned(r) ==
    /\ SetVM(r.vm)
    /\ result' = r.res
    /\ aborted' = (r.res.kind = "Panic")

\* Stepped with the fault of an error that halts the VM
Stepped_halting(r) ==
    /\ SetVM([r.vm EXCEPT !.halted = @ \/ r.res # Ok])
    /\ result' = (IF r.res = Ok THEN Pending ELSE r.res)
    /\ running' = (r.res = Ok)
    /\ aborted' = (r.res.kind = "Panic")

\* Stepped with the fault of a loop that goes on after an error
Stepped_continuing(r) ==
    /\ SetVM(r.vm)
    /\ result' = (IF r.res = Ok THEN Pending ELSE r.res)
    /\ running' = (r.res.kind # "Panic")
    /\ aborted' = (r.res.kind = "Panic")

\* execute_instruction has returned r.res and left the VM as r.vm: execute
\* goes on when it is Ok(()) and returns it otherwise
Stepped(r) ==
    /\ SetVM(r.vm)
    /\ result' = (IF r.res = Ok THEN Pending ELSE r.res)
    /\ running' = (r.res = Ok)
    /\ aborted' = (r.res.kind = "Panic")

\* vm.load_bytecode(&b), at most `max` times on the instance
LoadBytecode(b, max) ==
    /\ ~running
    /\ ~aborted
    /\ loads < max
    /\ Returned(load_bytecode(VM, b))
    /\ last_op' = "load_bytecode"
    /\ bytecode' = b
    /\ loads' = loads + 1
    /\ runs' = 0
    /\ UNCHANGED <<overflow_checks, running, fetched, value, other>>

\* vm.execute() is entered
ExecuteCall ==
    /\ ~running
    /\ ~aborted
    /\ runs < MaxRuns
    /\ running' = TRUE
    /\ last_op' = "execute"
    /\ result' = Pending
    /\ runs' = runs + 1
    /\ fetched' = NoFetch
    /\ UNCHANGED <<stack, memory, code, data, pc, call_stack, halted, printed,
                   pqc, overflow_checks, aborted, bytecode, loads, value, other>>

\* Step with the fault of a loop that does not look at the halted flag
Step_unhalted ==
    /\ running
    /\ pc < Len(code)
    /\ \E secret \in (IF At(code, pc) = OP_KyberKeyExchange THEN Secrets ELSE {<<>>}) :
         Stepped(execute_instruction(VM, [overflow_checks |-> overflow_checks,
                                          secret |-> secret]))
    /\ fetched' = [at |-> pc, byte |-> At(code, pc), any |-> TRUE]
    /\ UNCHANGED <<overflow_checks, last_op, bytecode, loads, runs, value, other>>

\* one turn of the loop of execute(): self.execute_instruction()?
Step ==
    /\ running
    /\ ~halted /\ pc < Len(code)
    /\ \E secret \in (IF At(code, pc) = OP_KyberKeyExchange THEN Secrets ELSE {<<>>}) :
         Stepped(execute_instruction(VM, [overflow_checks |-> overflow_checks,
                                          secret |-> secret]))
    /\ fetched' = [at |-> pc, byte |-> At(code, pc), any |-> TRUE]
    /\ UNCHANGED <<overflow_checks, last_op, bytecode, loads, runs, value, other>>

\* ExecuteReturn with the fault of an error when the code ends without Halt
ExecuteReturn_strict ==
    /\ running
    /\ ~(~halted /\ pc < Len(code))
    /\ running' = FALSE
    /\ result' = (IF halted THEN Ok ELSE InvalidAddress(W(pc)))
    /\ UNCHANGED <<stack, memory, code, data, pc, call_stack, halted, printed,
                   pqc, overflow_checks, aborted, last_op, bytecode, fetched,
                   loads, runs, value, other>>

\* the loop of execute() ends: the VM has halted or the pc has left the code
ExecuteReturn ==
    /\ running
    /\ ~(~halted /\ pc < Len(code))
    /\ running' = FALSE
    /\ result' = Ok
    /\ UNCHANGED <<stack, memory, code, data, pc, call_stack, halted, printed,
                   pqc, overflow_checks, aborted, last_op, bytecode, fetched,
                   loads, runs, value, other>>

(***************************************************************************)
(* Bytecode for the host to load.                                          *)
(***************************************************************************)
\* the little-endian bytes of a 32-bit pattern (an i32, or a u32 below 2^31)
LE32(v) == <<I32Lo(v) % 256, I32Lo(v) \div 256, I32Hi(v) % 256, I32Hi(v) \div 256>>
LE16(v) == <<v % 256, v \div 256>>

\* the 15 header bytes in wire order
HeaderBytes(magic4, version, header_length2, code_length4, data_length4) ==
    magic4 \o <<version>> \o header_length2 \o code_length4 \o data_length4

MagicBytes == <<0, 77, 86, 81>>

\* a well-formed blob: a 15-byte header, the code, the data
Blob(c, d) ==
    HeaderBytes(MagicBytes, 1, LE16(15), LE32(Len(c)), LE32(Len(d))) \o c \o d

\* instructions as bytes
Push(v) == <<OP_Push>> \o LE32(v)
Jump(addr) == <<OP_Jump>> \o LE32(addr)
JumpIf(addr) == <<OP_JumpIf>> \o LE32(addr)
Call(addr) == <<OP_Call>> \o LE32(addr)
LoadImm(bytes) == <<OP_LoadImm>> \o LE32(Len(bytes)) \o bytes

(***************************************************************************)
(* Arithmetic programs: Push a; Push b; Add; Halt.                         *)
(***************************************************************************)
ArithOperands == {I32_MIN, 0 - 1, 0, 1, 10, 20, I32_MAX}

PushPushAddHalt(a, b) == Push(a) \o Push(b) \o <<OP_Add, OP_Halt>>

ArithBlobs == {Blob(PushPushAddHalt(a, b), <<>>) : a, b \in ArithOperands}

MaxLoadsArith == 1

NextArith ==
    \/ \E b \in ArithBlobs : LoadBytecode(b, MaxLoadsArith)
    \/ ExecuteCall
    \/ Step
    \/ ExecuteReturn

SpecArith == Init /\ [][NextArith]_vars

(***************************************************************************)
(* C1.  On a VM that has been constructed, loaded with                     *)
(* `Push a; Push b; Add; Halt` and executed once, for any a and b whose    *)
(* sum fits an i32: execute has returned Ok(()), the halted flag is set    *)
(* and the stack holds exactly one entry, Value::I32(a + b).               *)
(***************************************************************************)
SumFitsI32(a, b) ==
    /\ b >= 0 => a <= I32_MAX - b
    /\ b < 0 => a >= I32_MIN - b

\* the first execute after the first load_bytecode has returned or panicked
FirstRunOver ==
    loads = 1 /\ runs = 1 /\ last_op = "execute" /\ ~running

C1_PushPushAddHalt ==
    \A a, b \in ArithOperands :
        (/\ SumFitsI32(a, b)
         /\ FirstRunOver
         /\ bytecode = Blob(PushPushAddHalt(a, b), <<>>))
        => (/\ result = Ok
            /\ ~aborted
            /\ halted
            /\ stack = <<I32(a + b)>>)

\* Push 10; Push 20; Add; Halt has run and left 30
C1_Witness ==
    /\ FirstRunOver
    /\ bytecode = Blob(PushPushAddHalt(10, 20), <<>>)
    /\ result = Ok
    /\ halted
    /\ stack = <<I32(30)>>

(***************************************************************************)
(* PQC programs, built as the integration tests build them: the operands   *)
(* are embedded with LoadImm in the order the tests' comments give.        *)
(***************************************************************************)
VerifyOps == {OP_DilithiumVerify, OP_FalconVerify, OP_SphincsVerify}

\* the shim a verify opcode stands for
ShimOf(op) ==
    CASE op = OP_DilithiumVerify -> "dilithium::verify"
      [] op = OP_FalconVerify -> "falcon::verify"
      [] op = OP_SphincsVerify -> "sphincs::verify"

PublicKeys == {<<1>>, <<1, 1>>}
Messages == {<<>>, <<72, 105>>}
Signatures == {<<2>>, <<2, 2, 2>>}
PrivateKeys == {<<1>>, <<1, 1>>}
Ciphertexts == {<<2>>, <<2, 2, 2>>}

\* push pk, then message, then signature; verify; halt
VerifyProgram(op, pk, msg, sig) ==
    LoadImm(pk) \o LoadImm(msg) \o LoadImm(sig) \o <<op, OP_Halt>>

\* push private_key, then ciphertext; decapsulate; halt
DecapsProgram(sk, ct) ==
    LoadImm(sk) \o LoadImm(ct) \o <<OP_KyberKeyExchange, OP_Halt>>

PqcBlobs ==
    {Blob(VerifyProgram(op, pk, msg, sig), <<>>) :
        op \in VerifyOps, pk \in PublicKeys, msg \in Messages, sig \in Signatures}
    \cup {Blob(DecapsProgram(sk, ct), <<>>) : sk \in PrivateKeys, ct \in Ciphertexts}
    \* a Dilithium signature of the message under a generated key, as it was
    \* signed and with its first or its last byte changed
    \cup {Blob(VerifyProgram(OP_DilithiumVerify, dilithium_keygen.public_key, msg,
                             [dilithium_sign(msg, dilithium_keygen.secret_key)
                                EXCEPT ![at] = bit]), <<>>) :
            msg \in Messages, at \in {1, DILITHIUM_SIGNATURE_BYTES}, bit \in {0, 1}}

MaxLoadsPqc == 1

NextPqc ==
    \/ \E b \in PqcBlobs : LoadBytecode(b, MaxLoadsPqc)
    \/ ExecuteCall
    \/ Step
    \/ ExecuteReturn

SpecPqc == Init /\ [][NextPqc]_vars

(***************************************************************************)
(* C2.  For DilithiumVerify, FalconVerify and SphincsVerify: when the      *)
(* program has pushed the public key, then the message, then the signature *)
(* and executed the verify instruction, the shim has been called with      *)
(* (message, signature, public_key) = (the pushed message, the pushed      *)
(* signature, the pushed public key), the three entries are gone and the   *)
(* boolean the shim returned is on the stack.                              *)
(***************************************************************************)
C2_VerifyArguments ==
    \A op \in VerifyOps, pk \in PublicKeys, msg \in Messages, sig \in Signatures :
        (/\ FirstRunOver
         /\ bytecode = Blob(VerifyProgram(op, pk, msg, sig), <<>>))
        => (/\ result = Ok
            /\ pqc = <<[fn |-> ShimOf(op), args |-> <<msg, sig, pk>>]>>
            /\ stack = <<Bool(TRUE)>>)

(***************************************************************************)
(* C3.  When the program has pushed the private key, then the ciphertext,  *)
(* and executed KyberKeyExchange, kyber::decaps has been called with       *)
(* (ct_bytes, sk_bytes) = (the pushed ciphertext, the pushed private key), *)
(* both entries are gone, the secret it returned is on the stack as one    *)
(* Value::Bytes, and no other shim has been called.                        *)
(***************************************************************************)
C3_DecapsArguments ==
    \A sk \in PrivateKeys, ct \in Ciphertexts :
        (/\ FirstRunOver
         /\ bytecode = Blob(DecapsProgram(sk, ct), <<>>))
        => (/\ result = Ok
            /\ pqc = <<[fn |-> "kyber::decaps", args |-> <<ct, sk>>]>>
            /\ \E secret \in Secrets : stack = <<Bytes(secret)>>)

(***************************************************************************)
(* Control-flow programs, and the host that loads one program after        *)
(* another on the same instance.                                           *)
(***************************************************************************)
\* a u32 operand of all ones: the largest target
FarTarget == <<255, 255, 255, 255>>

ControlPrograms ==
    {\* Call 5; Halt: the callee is the Halt, and the return address stays
     Call(5) \o <<OP_Halt>>,
     \* Return alone
     <<OP_Return>>,
     \* Call 6; Halt; Return: call and return
     Call(6) \o <<OP_Halt, OP_Return>>,
     \* Jump 6 over a byte that is no opcode
     Jump(6) \o <<0, OP_Halt>>,
     \* Jump to the code length, and to the largest u32
     Jump(6) \o <<OP_Halt>>,
     <<OP_Jump>> \o FarTarget \o <<OP_Halt>>,
     \* Pop; Call to an address past the end
     <<OP_Pop>> \o Call(9) \o <<OP_Halt>>,
     <<OP_Call>> \o FarTarget,
     \* a Jump whose operand is cut short
     <<OP_Jump, 1, 0>>,
     \* JumpIf: taken in range, not taken out of range, taken out of range
     Push(1) \o JumpIf(11) \o <<OP_Halt, OP_Halt>>,
     Push(0) \o JumpIf(99) \o <<OP_Halt>>,
     Push(1) \o JumpIf(99) \o <<OP_Halt>>,
     \* a loop that never ends
     Jump(0),
     \* Halt with instructions behind it
     <<OP_Halt>> \o Push(2) \o <<OP_Print>>,
     Push(1) \o <<OP_Halt, OP_Pop>> \o Call(0),
     \* a program that ends without a Halt
     Push(3),
     \* a program that leaves a stack entry, a stored value and a return
     \* address
     Push(9) \o Push(1) \o Push(5) \o <<OP_Store>> \o Call(21) \o <<OP_Halt>>}

\* the programs as blobs, and inputs that load_bytecode rejects: no header,
\* another magic number, less code than declared
ControlBlobs ==
    {Blob(c, <<>>) : c \in ControlPrograms}
    \cup {<<>>,
          HeaderBytes(<<81, 86, 77, 0>>, 1, LE16(15), LE32(1), LE32(0)) \o <<OP_Halt>>,
          HeaderBytes(MagicBytes, 1, LE16(15), LE32(2), LE32(0)) \o <<OP_Halt>>}

MaxLoads == 2

Next ==
    \/ \E b \in ControlBlobs : LoadBytecode(b, MaxLoads)
    \/ ExecuteCall
    \/ Step
    \/ ExecuteReturn

Spec == Init /\ [][Next]_vars

(***************************************************************************)
(* C4.  In every state reached by load_bytecode and execute calls on one   *)
(* instance, reloads included, the program counter is at most code.len()   *)
(* and every opcode was fetched at an index below code.len().              *)
(***************************************************************************)
C4_PcWithinCode ==
    /\ pc <= Len(code)
    /\ (last_op = "execute" /\ fetched.any) => fetched.at < Len(code)

(***************************************************************************)
(* C5.  A Jump or Call whose inline target is >= code.len() fails with     *)
(* InvalidAddress(target).  As claimed, it leaves the program counter at   *)
(* the address of the instruction (C5_PcUntouched); in the code, it leaves *)
(* the program counter behind the 4-byte operand, 5 bytes further, and     *)
(* never at the target (C5_PcPastOperand).                                 *)
(***************************************************************************)
\* the u32 operand of the instruction at `at`
OperandAt(at) ==
    U32LE(At(code, at + 1), At(code, at + 2), At(code, at + 3), At(code, at + 4))

\* execute has just run a Jump or a Call with a whole operand that is no
\* index of the code
JumpedOutOfRange ==
    /\ last_op = "execute"
    /\ ~running
    /\ fetched.any
    /\ fetched.byte \in {OP_Jump, OP_Call}
    /\ fetched.at + 5 <= Len(code)
    /\ ~WLt(OperandAt(fetched.at), W(Len(code)))

HEADER_LEN == 15

\* the magic number with its bytes in the other order, and with one bit off
BadMagics == {<<81, 86, 77, 0>>, <<0, 77, 86, 80>>}

\* the bytes that follow the header
Payload == <<OP_Halt, OP_Pop, OP_Halt, 9>>

HeaderLengths == {LE16(0), LE16(14), LE16(15), LE16(16), <<255, 255>>}
CodeLengths == {LE32(0), LE32(1), LE32(2), FarTarget}
DataLengths == {LE32(0), LE32(1), FarTarget}
PayloadLengths == {1, 4}

ShortBlobs ==
    {SubSeq(HeaderBytes(m, 1, LE16(15), LE32(0), LE32(0)), 1, n) :
        m \in {MagicBytes} \cup BadMagics, n \in 0..(HEADER_LEN - 1)}

VariedBlobs ==
    {HeaderBytes(MagicBytes, 1, hl, cl, dl) \o SubSeq(Payload, 1, n) :
        hl \in HeaderLengths, cl \in CodeLengths, dl \in DataLengths,
        n \in PayloadLengths}

OtherBlobs ==
    {HeaderBytes(m, 1, LE16(15), LE32(1), LE32(0)) \o <<OP_Halt>> : m \in BadMagics}
    \cup {HeaderBytes(MagicBytes, v, LE16(15), LE32(1), LE32(0)) \o <<OP_Halt>> :
            v \in {0, 2, 255}}
    \cup {HeaderBytes(MagicBytes, 1, LE16(15), <<0, 0, 1, 0>>, LE32(0)) \o Payload,
          HeaderBytes(MagicBytes, 1, LE16(15), LE32(0), <<0, 0, 0, 1>>) \o Payload,
          HeaderBytes(MagicBytes, 1, LE16(15), LE32(0), LE32(0))}

LoaderBlobs == ShortBlobs \cup VariedBlobs \cup OtherBlobs

MaxLoadsLoader == 1

NextLoader ==
    \/ \E b \in LoaderBlobs : LoadBytecode(b, MaxLoadsLoader)
    \/ ExecuteCall
    \/ Step
    \/ ExecuteReturn

SpecLoader == Init /\ [][NextLoader]_vars

\* the fields of the header of b, read from the wire format; the blobs of
\* the model are shorter than 65536 bytes, so a length with a byte set in
\* its upper half is larger than the blob
U16At(b, i) == At(b, i) + 256 * At(b, i + 1)
DeclaredHeader(b) == U16At(b, 5)
DeclaredCode(b) == U16At(b, 7)
DeclaredData(b) == U16At(b, 11)
MagicMatches(b) == SubSeq(b, 1, 4) = <<0, 77, 86, 81>>
Fits(b) ==
    /\ U16At(b, 9) = 0
    /\ U16At(b, 13) = 0
    /\ DeclaredHeader(b) + DeclaredCode(b) + DeclaredData(b) <= Len(b)

\* load_bytecode(bytecode) is the last call that returned
LoadReturned == last_op = "load_bytecode"

(***************************************************************************)
(* C6.  For every input of 0 to 14 bytes load_bytecode returns a format    *)
(* error and does not abort the process.                                   *)
(***************************************************************************)
C6_ShortInputRejected ==
    (LoadReturned /\ Len(bytecode) < HEADER_LEN)
    => (result.kind = "InvalidBytecode" /\ ~aborted)

(***************************************************************************)
(* C7.  For an input of at least 15 bytes load_bytecode succeeds exactly   *)
(* when the first four bytes are the magic number and the input is at      *)
(* least header_length + code_length + data_length long, whatever the      *)
(* version byte; it returns a format error otherwise, and a fresh instance *)
(* has then loaded and executed nothing.                                   *)
(***************************************************************************)
C7_LoadAcceptsExactly ==
    (LoadReturned /\ Len(bytecode) >= HEADER_LEN)
    => (/\ (result = Ok) <=> (MagicMatches(bytecode) /\ Fits(bytecode))
        /\ result # Ok => result.kind = "InvalidBytecode"
        /\ ~aborted
        /\ (result # Ok /\ loads = 1)
           => (code = <<>> /\ data = <<>> /\ stack = <<>> /\ ~fetched.any))

\* a blob of version 255 that ends with its last declared byte is accepted
C7_Witness ==
    /\ LoadReturned
    /\ result = Ok
    /\ At(bytecode, 4) = 255
    /\ Len(bytecode) = DeclaredHeader(bytecode) + DeclaredCode(bytecode) + DeclaredData(bytecode)
    /\ Len(bytecode) > HEADER_LEN

(***************************************************************************)
(* C8.  After a successful load of b, code is b[hl .. hl+cl] and data is   *)
(* b[hl+cl .. hl+cl+dl], with hl, cl, dl read little-endian at offsets 5,  *)
(* 7 and 11; what follows the data is ignored.                             *)
(***************************************************************************)
C8_SectionsLoaded ==
    (LoadReturned /\ result = Ok)
    => (/\ code = SubSeq(bytecode,
                         DeclaredHeader(bytecode) + 1,
                         DeclaredHeader(bytecode) + DeclaredCode(bytecode))
        /\ data = SubSeq(bytecode,
                         DeclaredHeader(bytecode) + DeclaredCode(bytecode) + 1,
                         DeclaredHeader(bytecode) + DeclaredCode(bytecode)
                            + DeclaredData(bytecode))
        /\ pc = 0
        /\ ~halted)

\* a blob with a byte between header and code, one byte of code, one of
\* data and one byte after the data
C8_Witness ==
    /\ LoadReturned
    /\ result = Ok
    /\ DeclaredHeader(bytecode) = 16
    /\ code = <<OP_Pop>>
    /\ data = <<OP_Halt>>
    /\ Len(bytecode) = 19

(***************************************************************************)
(* C9.  Every accepted blob declares a header_length of at least 15, so    *)
(* that the code begins behind the header.                                 *)
(***************************************************************************)
C9_CodeBehindHeader ==
    (LoadReturned /\ result = Ok) => DeclaredHeader(bytecode) >= HEADER_LEN

(***************************************************************************)
(* Programs that push in a loop, one for each instruction that makes the   *)
(* stack longer, and one that pops.                                        *)
(***************************************************************************)
\* n copies of the instructions s, one after the other
Repeat(s, n) == [i \in 1..(n * Len(s)) |-> s[((i - 1) % Len(s)) + 1]]

\* programs of pushing instructions only, more than the stack has room
\* for: a Push, 998 Dups, and then Dups, or a LoadImm and a Push, or a Push
\* and a LoadImm, as the 1000th and the 1001st
StraightPrograms ==
    <<Push(7) \o Repeat(<<OP_Dup>>, STACK_LIMIT - 2) \o <<OP_Dup, OP_Dup, OP_Dup>>,
      Push(7) \o Repeat(<<OP_Dup>>, STACK_LIMIT - 2) \o LoadImm(<<1>>) \o Push(8),
      Push(7) \o Repeat(<<OP_Dup>>, STACK_LIMIT - 2) \o Push(8) \o LoadImm(<<1>>)>>

StackPrograms ==
    {Push(7) \o Jump(0),
     Push(1) \o <<OP_Dup>> \o Jump(5),
     LoadImm(<<>>) \o Jump(0),
     <<OP_Pop, OP_Pop, OP_Halt>>}
    \cup {StraightPrograms[i] : i \in 1..3}

StackBlobs == {Blob(c, <<>>) : c \in StackPrograms}

MaxLoadsStack == 1

NextStack ==
    \/ \E b \in StackBlobs : LoadBytecode(b, MaxLoadsStack)
    \/ ExecuteCall
    \/ Step
    \/ ExecuteReturn

SpecStack == Init /\ [][NextStack]_vars

PushesBefore(i, at) ==
    IF at = 0 THEN 0
    ELSE IF at >= 5 /\ at <= 1003 THEN at - 4
    ELSE IF i = 1 /\ at <= 1006 THEN at - 4
    ELSE IF i = 2 /\ at = 1009 THEN 1000
    ELSE IF i = 3 /\ at = 1008 THEN 1000
    ELSE IF i \in {2, 3} /\ at = 1014 THEN 1001
    ELSE 1002

\* the value that the j-th instruction of StraightPrograms[i] pushes
Pushed(i, j) ==
    IF j < 1000 \/ i = 1 THEN I32(7)
    ELSE IF i = 2 THEN Bytes(<<1>>)
    ELSE I32(8)

\* the first execute call on StraightPrograms[i], loaded into a new VM
FirstRunOf(i) ==
    /\ loads = 1
    /\ runs = 1
    /\ last_op = "execute"
    /\ code = StraightPrograms[i]

C11_OverflowOn1001st ==
    \A i \in 1..3 :
        FirstRunOf(i)
        => (/\ PushesBefore(i, pc) <= 1001
            /\ PushesBefore(i, pc) <= 1000
               => (/\ result = Pending
                   /\ stack = [j \in 1..PushesBefore(i, pc) |-> Pushed(i, j)])
            /\ PushesBefore(i, pc) = 1001
               => (/\ result = StackOverflow
                   /\ ~running
                   /\ ~aborted
                   /\ stack = [j \in 1..1000 |-> Pushed(i, j)]))

\* the 1000th push, a LoadImm, has succeeded and the 1001st, a Push, has
\* failed
C11_Witness ==
    /\ FirstRunOf(2)
    /\ PushesBefore(2, pc) = 1001
    /\ fetched.byte = OP_Push
    /\ result = StackOverflow
    /\ Len(stack) = 1000
    /\ stack[1000] = Bytes(<<1>>)

(***************************************************************************)
(* Short programs, one or a few instructions each, for the single          *)
(* instructions of the VM.                                                 *)
(***************************************************************************)
\* the instructions that take operands from the stack; only JumpIf has an
\* inline operand
PoppingInstructions ==
    {<<op>> : op \in {OP_Pop, OP_Dup, OP_Print, OP_Load, OP_Swap, OP_Add,
                      OP_Sub, OP_Mul, OP_Div, OP_Eq, OP_Ne, OP_Lt, OP_Le,
                      OP_Gt, OP_Ge, OP_Store, OP_KyberKeyExchange,
                      OP_DilithiumVerify, OP_FalconVerify, OP_SphincsVerify}}
    \cup {JumpIf(0)}

\* Push 99; Push a; Push b; op; Halt
BinaryProgram(op, a, b) == Push(99) \o Push(a) \o Push(b) \o <<op, OP_Halt>>

\* operands a, b: of either sign and order, equal, zero, and at the ends
\* of the i32 range
BinaryPairs ==
    {<<7, 2>>, <<2, 7>>, <<0 - 7, 2>>, <<7, 0 - 2>>, <<0 - 7, 0 - 2>>, <<3, 3>>,
     <<0, 5>>, <<5, 0>>, <<I32_MIN, 0 - 1>>, <<0 - 1, I32_MIN>>, <<I32_MAX, 1>>,
     <<I32_MIN, 1>>, <<I32_MAX, 2>>, <<I32_MIN, I32_MIN>>}

\* store x at a, store the bytes <<2>> at b, load a, load b
StoreLoadProgram(x, a, b) ==
    Push(x) \o Push(a) \o <<OP_Store>>
    \o LoadImm(<<2>>) \o Push(b) \o <<OP_Store>>
    \o Push(a) \o <<OP_Load>> \o Push(b) \o <<OP_Load, OP_Halt>>

\* store 11 at 5; load it twice and add the copies; pop the sum; load again
StoreLoadTwiceProgram ==
    Push(11) \o Push(5) \o <<OP_Store>>
    \o Push(5) \o <<OP_Load>> \o Push(5) \o <<OP_Load, OP_Add, OP_Pop>>
    \o Push(5) \o <<OP_Load, OP_Halt>>

OpsPrograms ==
    \* 0, 1 or 2 integers, or byte strings, and an instruction that pops
    {Repeat(fill, j) \o instruction :
        fill \in {Push(1), LoadImm(<<1>>)}, j \in 0..2,
        instruction \in PoppingInstructions}
    \* the binary operators on two integers
    \cup {BinaryProgram(op, p[1], p[2]) :
            op \in {OP_Add, OP_Sub, OP_Mul, OP_Div, OP_Eq, OP_Ne, OP_Lt, OP_Le,
                    OP_Gt, OP_Ge},
            p \in BinaryPairs}
    \* Push 5; Push 0; Div; Halt
    \cup {Push(5) \o Push(0) \o <<OP_Div, OP_Halt>>}
    \* LoadImm with a length of 0, 2, 3, 65536 and 2^32 - 1 in front of 0,
    \* 2 and 3 bytes, and with its length cut short
    \cup {<<OP_LoadImm>> \o len \o rest :
            len \in {LE32(0), LE32(2), LE32(3), <<0, 0, 1, 0>>, FarTarget},
            rest \in {<<>>, <<OP_Halt, OP_Halt>>, <<OP_Halt, 9, OP_Halt>>}}
    \cup {<<OP_LoadImm, 1, 0>>}
    \* an instruction with a 4-byte operand of which 0 to 3 bytes are there,
    \* on a stack of one entry
    \cup {Push(1) \o <<op>> \o SubSeq(<<1, 0, 0>>, 1, n) :
            op \in {OP_Push, OP_Jump, OP_JumpIf, OP_Call}, n \in 0..3}
    \* JumpIf on a false and on a true condition, integer and boolean, to the
    \* Halt that ends the code, to the middle of the Push, to the code
    \* length and to the largest u32
    \cup {cond \o <<OP_JumpIf>> \o target \o <<OP_Halt>> :
            cond \in {Push(0), Push(1), Push(0 - 3),
                      Push(1) \o Push(1) \o <<OP_Eq>>,
                      Push(1) \o Push(2) \o <<OP_Eq>>},
            target \in {LE32(10), LE32(16), LE32(2), LE32(11), LE32(17), FarTarget}}
    \* stores to two addresses, equal or not, and loads of them
    \cup {StoreLoadProgram(x, a, b) :
            x \in {0, 11}, a \in {0, 5, 0 - 1}, b \in {0, 5, 0 - 1}}
    \cup {StoreLoadTwiceProgram}
    \* a boolean stored and loaded
    \cup {Push(1) \o Push(1) \o <<OP_Eq>> \o Push(5) \o <<OP_Store>>
          \o Push(5) \o <<OP_Load, OP_Halt>>}
    \* a load of an address that was never stored, in an empty memory and
    \* beside the address 5
    \cup {Push(0) \o <<OP_Load, OP_Halt>>}
    \cup {Push(11) \o Push(5) \o <<OP_Store>> \o Push(a) \o <<OP_Load, OP_Halt>> :
            a \in {0, 6, 0 - 1}}
    \* two values printed, and a third Print on the stack they left empty
    \cup {Push(1) \o LoadImm(<<2>>) \o <<OP_Print, OP_Print, OP_Print, OP_Halt>>}
    \* two Swaps, and Dup; Pop, above an entry they do not touch
    \cup {Push(1) \o LoadImm(<<2>>) \o Push(3) \o <<OP_Swap, OP_Swap, OP_Halt>>,
          Push(1) \o LoadImm(<<2>>) \o <<OP_Dup, OP_Pop, OP_Halt>>}
    \* an addition of a byte string and an integer, with a Halt behind it
    \cup {LoadImm(<<1>>) \o Push(2) \o <<OP_Add, OP_Halt>>}
    \* a byte that is no opcode, alone and behind a Push
    \cup {SubSeq(Push(1), 1, n) \o <<b>> \o <<OP_Halt>> :
            n \in {0, 5}, b \in {0, 5, 15, 127, 132, 254}}

MaxLoadsOps == 1

NextOps ==
    \/ \E c \in OpsPrograms : LoadBytecode(Blob(c, <<>>), MaxLoadsOps)
    \/ ExecuteCall
    \/ Step
    \/ ExecuteReturn

SpecOps == Init /\ [][NextOps]_vars

(***************************************************************************)
(* C12.  An instruction that needs k operands fails with StackUnderflow    *)
(* when the stack holds fewer than k entries; the VM does not abort and    *)
(* nothing is computed from a value put in place of the missing one.  As   *)
(* claimed, this holds whatever the entries are (C12_UnderflowAlways); in  *)
(* the code it holds when the entries that are there have the types the    *)
(* instruction asks for, and an entry of another type is reported first,   *)
(* as a RuntimeError (C12_UnderflowWhenTyped).                             *)
(***************************************************************************)
\* the operands each instruction needs
Arity(op) ==
    IF op \in {OP_Pop, OP_Dup, OP_Print, OP_Load, OP_JumpIf} THEN 1
    ELSE IF op \in {OP_Swap, OP_Add, OP_Sub, OP_Mul, OP_Div, OP_Eq, OP_Ne,
                    OP_Lt, OP_Le, OP_Gt, OP_Ge, OP_Store, OP_KyberKeyExchange}
    THEN 2
    ELSE IF op \in {OP_DilithiumVerify, OP_FalconVerify, OP_SphincsVerify} THEN 3
    ELSE 0

\* the value v can be the n-th operand that op takes from the stack
Accepts(op, n, v) ==
    IF op \in {OP_Pop, OP_Dup, OP_Print, OP_Swap} THEN TRUE
    ELSE IF op = OP_Store THEN (n = 1 => v.tag = "I32")
    ELSE IF op = OP_JumpIf THEN v.tag \in {"Bool", "I32"}
    ELSE IF op \in {OP_KyberKeyExchange, OP_DilithiumVerify, OP_FalconVerify,
                    OP_SphincsVerify}
    THEN v.tag = "Bytes"
    ELSE v.tag = "I32"

\* execute is about to run a whole instruction that needs more operands
\* than the stack holds
TooFewOperands ==
    /\ running /\ ~halted /\ pc < Len(code)
    /\ At(code, pc) = OP_JumpIf => pc + 5 <= Len(code)
    /\ Len(stack) < Arity(At(code, pc))

\* the entries on the stack have the types the instruction asks for
OperandsTyped ==
    \A n \in 1..Len(stack) : Accepts(At(code, pc), n, stack[Len(stack) + 1 - n])

\* the instruction fails with StackUnderflow and has no effect but the
\* removal of operands
Underflows ==
    /\ result' = StackUnderflow
    /\ ~running'
    /\ ~aborted'
    /\ Len(stack') <= Len(stack)
    /\ stack' = SubSeq(stack, 1, Len(stack'))
    /\ UNCHANGED <<memory, call_stack, halted, printed, pqc>>

C12_UnderflowAlways == [][TooFewOperands => Underflows]_vars

C12_UnderflowWhenTyped == [][(TooFewOperands /\ OperandsTyped) => Underflows]_vars

\* SphincsVerify has failed for want of its third operand
C12_Witness ==
    /\ last_op = "execute"
    /\ ~running
    /\ fetched.any
    /\ fetched.byte = OP_SphincsVerify
    /\ code = LoadImm(<<1>>) \o LoadImm(<<1>>) \o <<OP_SphincsVerify>>
    /\ result = StackUnderflow
    /\ stack = <<>>
    /\ pqc = <<>>

(***************************************************************************)
(* C13.  Div with the divisor 0 on top of the stack, over an integer       *)
(* dividend, fails with RuntimeError("Division by zero"): both operands    *)
(* are gone and nothing is pushed, halted stays unset, and execute returns *)
(* without running the instructions behind the Div.                        *)
(***************************************************************************)
\* execute is about to run the arithmetic instruction op on two integers
AboutToCompute(op) ==
    /\ running /\ ~halted /\ pc < Len(code)
    /\ At(code, pc) = op
    /\ Len(stack) >= 2
    /\ stack[Len(stack)].tag = "I32"
    /\ stack[Len(stack) - 1].tag = "I32"

C13_DivisionByZero ==
    [][(AboutToCompute(OP_Div) /\ stack[Len(stack)].int = 0)
       => (/\ result' = RuntimeError("Division by zero")
           /\ ~running'
           /\ ~aborted'
           /\ ~halted'
           /\ stack' = SubSeq(stack, 1, Len(stack) - 2)
           /\ pc' = pc + 1
           /\ UNCHANGED <<memory, call_stack, printed, pqc>>)]_vars

\* Push 5; Push 0; Div; Halt has stopped at the Div
C13_Witness ==
    /\ FirstRunOver
    /\ code = Push(5) \o Push(0) \o <<OP_Div, OP_Halt>>
    /\ result = RuntimeError("Division by zero")
    /\ fetched.byte = OP_Div
    /\ pc = 11
    /\ stack = <<>>
    /\ ~halted

(***************************************************************************)
(* C14.  For every pair of integers a, b on the stack, Add, Sub and Mul    *)
(* push one integer, and so does Div unless b = 0; the VM never aborts,    *)
(* whatever a and b are.                                                   *)
(***************************************************************************)
C14_ArithmeticTotal ==
    [][\A op \in {OP_Add, OP_Sub, OP_Mul, OP_Div} :
          AboutToCompute(op)
          => (/\ ~aborted'
              /\ (op # OP_Div \/ stack[Len(stack)].int # 0)
                 => (/\ running'
                     /\ Len(stack') = Len(stack) - 1
                     /\ stack'[Len(stack')].tag = "I32"))]_vars

(***************************************************************************)
(* C15.  With a pushed first and b second, a binary operator leaves        *)
(* a op b, not b op a, in place of the two: an integer for Add, Sub, Mul   *)
(* and Div, a boolean for Eq, Ne, Lt, Le, Gt and Ge.                       *)
(***************************************************************************)
\* the pairs whose sum, difference, product and quotient are far from the
\* ends of the i32 range
SmallPairs ==
    {p \in BinaryPairs : \A i \in 1..2 : p[i] >= 0 - 1000 /\ p[i] <= 1000}

\* a / b rounded towards zero, b # 0
Quotient(a, b) ==
    IF (a < 0) = (b < 0) THEN Abs(a) \div Abs(b) ELSE 0 - (Abs(a) \div Abs(b))

\* the value of a op b
Applied(op, a, b) ==
    CASE op = OP_Add -> I32(a + b)
      [] op = OP_Sub -> I32(a - b)
      [] op = OP_Mul -> I32(a * b)
      [] op = OP_Div -> I32(Quotient(a, b))
      [] op = OP_Eq -> Bool(a = b)
      [] op = OP_Ne -> Bool(a # b)
      [] op = OP_Lt -> Bool(a < b)
      [] op = OP_Le -> Bool(a <= b)
      [] op = OP_Gt -> Bool(a > b)
      [] op = OP_Ge -> Bool(a >= b)

C15_LeftThenRight ==
    \A op \in {OP_Add, OP_Sub, OP_Mul, OP_Div, OP_Eq, OP_Ne, OP_Lt, OP_Le,
               OP_Gt, OP_Ge} :
        \A p \in SmallPairs :
            (/\ FirstRunOver
             /\ code = BinaryProgram(op, p[1], p[2])
             /\ (op = OP_Div => p[2] # 0))
            => (/\ result = Ok
                /\ halted
                /\ stack = <<I32(99), Applied(op, p[1], p[2])>>)

\* Push 99; Push -7; Push 2; Div; Halt has left 99 and -3
C15_Witness ==
    /\ FirstRunOver
    /\ code = BinaryProgram(OP_Div, 0 - 7, 2)
    /\ result = Ok
    /\ stack = <<I32(99), I32(0 - 3)>>

(***************************************************************************)
(* C16.  Halt sets the halted flag.  While it is set, no instruction runs, *)
(* in the execute call under way and in later ones, and the flag stays     *)
(* set, until a load_bytecode succeeds: the bytes behind the Halt change   *)
(* neither stack, memory, call stack nor program counter.                  *)
(***************************************************************************)
C16_HaltStops ==
    [][/\ (running /\ ~halted /\ pc < Len(code) /\ At(code, pc) = OP_Halt)
          => halted'
       /\ halted
          => \/ loads' = loads + 1 /\ result' = Ok /\ ~halted' /\ pc' = 0
             \/ /\ halted'
                /\ UNCHANGED <<stack, memory, code, data, pc, call_stack,
                               printed, pqc>>
                /\ result' \in {Ok, Pending, InvalidBytecode("Header too short"),
                               InvalidBytecode("Invalid magic number"),
                               InvalidBytecode("Bytecode too short")}
      ]_vars

\* a second execute call, after a load_bytecode that failed, has returned
\* on the halted VM with the Push and the Print behind the Halt not run
C16_Witness ==
    /\ halted
    /\ code = <<OP_Halt>> \o Push(2) \o <<OP_Print>>
    /\ bytecode = <<>>
    /\ last_op = "execute"
    /\ ~running
    /\ result = Ok
    /\ pc = 1
    /\ stack = <<>>
    /\ printed = <<>>

(***************************************************************************)
(* C17.  When the program counter is at (or past) code.len() and no Halt   *)
(* has run, with or without a program loaded, execute returns Ok(()) and   *)
(* the halted flag stays unset.                                            *)
(***************************************************************************)
C17_EndOfCodeIsOk ==
    [][(running /\ ~halted /\ pc >= Len(code))
       => (/\ ~running'
           /\ result' = Ok
           /\ ~halted'
           /\ ~aborted'
           /\ UNCHANGED <<stack, memory, code, data, pc, call_stack, printed, pqc>>)
      ]_vars

\* Push 1; Pop has run to the end of the code
C17_Witness ==
    /\ last_op = "execute"
    /\ ~running
    /\ code = Push(1) \o <<OP_Pop>>
    /\ fetched.byte = OP_Pop
    /\ pc = Len(code)
    /\ result = Ok
    /\ ~halted

(***************************************************************************)
(* C18.  Return with an empty call stack fails with                        *)
(* RuntimeError("Return without call"); execute stops, and the program     *)
(* counter is left behind the Return, at no return address.                *)
(***************************************************************************)
C18_ReturnWithoutCall ==
    [][(/\ running /\ ~halted /\ pc < Len(code)
        /\ At(code, pc) = OP_Return
        /\ call_stack = <<>>)
       => (/\ result' = RuntimeError("Return without call")
           /\ ~running'
           /\ ~aborted'
           /\ pc' = pc + 1
           /\ call_stack' = <<>>
           /\ UNCHANGED <<stack, memory, halted>>)
      ]_vars

\* the program that is a Return alone has failed on a new VM
C18_Witness ==
    /\ last_op = "execute"
    /\ ~running
    /\ code = <<OP_Return>>
    /\ fetched.byte = OP_Return
    /\ result = RuntimeError("Return without call")
    /\ pc = 1
    /\ call_stack = <<>>

(***************************************************************************)
(* C19.  A Call to a target T in the code saves the address behind its     *)
(* 4-byte operand and goes to T; when the instruction at T is Return, the  *)
(* Return that follows goes back to that address and leaves the call stack *)
(* as it was before the Call.                                              *)
(***************************************************************************)
\* execute is about to run the instruction op
AboutToRun(op) ==
    running /\ ~halted /\ pc < Len(code) /\ At(code, pc) = op

C19_CallThenReturn ==
    [][/\ (/\ AboutToRun(OP_Call)
           /\ pc + 5 <= Len(code)
           /\ WLt(OperandAt(pc), W(Len(code))))
          => (/\ running'
              /\ W(pc') = OperandAt(pc)
              /\ call_stack' = Append(call_stack, pc + 5))
       /\ (/\ AboutToRun(OP_Return)
           /\ fetched.any
           /\ fetched.byte = OP_Call
           /\ OperandAt(fetched.at) = W(pc))
          => (/\ running'
              /\ pc' = fetched.at + 5
              /\ Len(call_stack) > 0
              /\ call_stack' = SubSeq(call_stack, 1, Len(call_stack) - 1)
              /\ call_stack = Append(call_stack', fetched.at + 5))
      ]_vars

\* in Call 6; Halt; Return the Return has gone back to the Halt
C19_Witness ==
    /\ running
    /\ code = Call(6) \o <<OP_Halt, OP_Return>>
    /\ fetched.byte = OP_Return
    /\ fetched.at = 6
    /\ pc = 5
    /\ call_stack = <<>>

(***************************************************************************)
(* C20.  LoadImm with the inline length L: when L bytes follow in the      *)
(* code, it pushes those L bytes as one byte string and leaves the program *)
(* counter 4 + L behind the opcode; when fewer follow, it fails with       *)
(* InvalidAddress and pushes nothing.                                      *)
(***************************************************************************)
\* the length operand at `at`, when it is below 65536
SmallOperandAt(at) == At(code, at + 1) + 256 * At(code, at + 2)

\* L bytes follow the length operand of the LoadImm at pc
BytesFollow ==
    /\ At(code, pc + 3) = 0
    /\ At(code, pc + 4) = 0
    /\ pc + 5 + SmallOperandAt(pc) <= Len(code)

C20_LoadImm ==
    [][(AboutToRun(OP_LoadImm) /\ pc + 5 <= Len(code) /\ Len(stack) < 1000)
       => /\ BytesFollow
             => (/\ running'
                 /\ stack' = Append(stack,
                                    Bytes(SubSeq(code, pc + 6,
                                                 pc + 5 + SmallOperandAt(pc))))
                 /\ pc' = pc + 1 + 4 + SmallOperandAt(pc))
          /\ ~BytesFollow
             => (/\ result'.kind = "InvalidAddress"
                 /\ ~running'
                 /\ ~aborted'
                 /\ stack' = stack)
      ]_vars

\* LoadImm 2 has pushed the two bytes behind it, which end the code
C20_Witness ==
    /\ running
    /\ code = <<OP_LoadImm>> \o LE32(2) \o <<OP_Halt, OP_Halt>>
    /\ fetched.byte = OP_LoadImm
    /\ fetched.at = 0
    /\ pc = 7
    /\ stack = <<Bytes(<<OP_Halt, OP_Halt>>)>>

(***************************************************************************)
(* C21.  Push, Jump, JumpIf and Call with fewer than 4 bytes of code       *)
(* behind the opcode fail with an error that execute returns; no byte      *)
(* outside the code is read, and stack and call stack are unchanged.       *)
(***************************************************************************)
C21_TruncatedOperand ==
    [][(/\ running /\ ~halted /\ pc < Len(code)
        /\ At(code, pc) \in {OP_Push, OP_Jump, OP_JumpIf, OP_Call}
        /\ Len(code) - (pc + 1) < 4)
       => (/\ result' = InvalidAddress(W(pc + 1))
           /\ ~running'
           /\ ~aborted'
           /\ UNCHANGED <<stack, call_stack, memory, halted>>)
      ]_vars

\* Push 1; JumpIf with 3 of its 4 operand bytes has failed
C21_Witness ==
    /\ last_op = "execute"
    /\ ~running
    /\ code = Push(1) \o <<OP_JumpIf, 1, 0, 0>>
    /\ fetched.byte = OP_JumpIf
    /\ result = InvalidAddress(W(6))
    /\ stack = <<I32(1)>>
    /\ call_stack = <<>>

(***************************************************************************)
(* C22.  A byte at the program counter that is none of the 27 opcodes      *)
(* makes the step fail with InvalidInstruction(byte), before the program   *)
(* counter moves: program counter, stack, memory, call stack and halted    *)
(* flag are as they were.                                                  *)
(***************************************************************************)
C22_InvalidInstruction ==
    /\ Cardinality(OpCodes) = 27
    /\ [][(/\ running /\ ~halted /\ pc < Len(code)
           /\ At(code, pc) \notin
                {1, 2, 3, 4, 16, 17, 18, 19, 32, 33, 34, 35, 36, 37, 48, 49, 50,
                 51, 64, 65, 66, 128, 129, 130, 131, 240, 255})
          => (/\ result' = InvalidInstruction(At(code, pc))
              /\ ~running'
              /\ ~aborted'
              /\ UNCHANGED <<pc, stack, memory, call_stack, halted>>)
         ]_vars

\* the byte 132 behind Push 1 has been refused
C22_Witness ==
    /\ last_op = "execute"
    /\ ~running
    /\ code = Push(1) \o <<132, OP_Halt>>
    /\ fetched.byte = 132
    /\ result = InvalidInstruction(132)
    /\ pc = 5
    /\ stack = <<I32(1)>>
    /\ ~halted

(***************************************************************************)
(* C23.  JumpIf with its operand and a condition on the stack consumes     *)
(* the 4 operand bytes and pops the condition.  On a false condition the   *)
(* run goes on behind the operand, whatever the target; on a true one the  *)
(* program counter becomes the target when that is below the code length,  *)
(* and the step fails with InvalidAddress(target) otherwise.               *)
(***************************************************************************)
ConditionOnTop ==
    /\ Len(stack) >= 1
    /\ stack[Len(stack)].tag \in {"Bool", "I32"}

ConditionHolds ==
    IF stack[Len(stack)].tag = "Bool" THEN stack[Len(stack)].bool
    ELSE stack[Len(stack)].int # 0

C23_JumpIf ==
    [][(AboutToRun(OP_JumpIf) /\ pc + 5 <= Len(code) /\ ConditionOnTop)
       => /\ stack' = SubSeq(stack, 1, Len(stack) - 1)
          /\ UNCHANGED <<memory, call_stack, halted, printed>>
          /\ ~aborted'
          /\ ~ConditionHolds
             => (running' /\ result' = Pending /\ pc' = pc + 5)
          /\ (ConditionHolds /\ WLt(OperandAt(pc), W(Len(code))))
             => (running' /\ result' = Pending /\ W(pc') = OperandAt(pc))
          /\ (ConditionHolds /\ ~WLt(OperandAt(pc), W(Len(code))))
             => (/\ ~running'
                 /\ result' = InvalidAddress(OperandAt(pc))
                 /\ pc' = pc + 5)
      ]_vars

\* Push 0; JumpIf 0xFFFFFFFF has gone on to the Halt behind it
C23_Witness ==
    /\ running
    /\ code = Push(0) \o <<OP_JumpIf>> \o FarTarget \o <<OP_Halt>>
    /\ fetched.any
    /\ fetched.byte = OP_JumpIf
    /\ fetched.at = 5
    /\ pc = 10
    /\ stack = <<>>
    /\ result = Pending

(***************************************************************************)
(* C24.  Store pops the address, then the value, and succeeds for every    *)
(* i32 address and every value; it changes the entry of that address       *)
(* only.  A Load of an address pushes the value stored there last: the     *)
(* program that stores x at a and <<2>> at b ends with what it loads from  *)
(* a and from b on the stack, the later store having won when a = b.       *)
(***************************************************************************)
AddressOnTop ==
    /\ Len(stack) >= 1
    /\ stack[Len(stack)].tag = "I32"

TopAddress == I32AsUsize(stack[Len(stack)].int)

C24_StoreThenLoad ==
    /\ [][(AboutToRun(OP_Store) /\ AddressOnTop /\ Len(stack) >= 2)
          => (/\ running'
              /\ result' = Pending
              /\ stack' = SubSeq(stack, 1, Len(stack) - 2)
              /\ DOMAIN memory' = (DOMAIN memory) \cup {TopAddress}
              /\ memory'[TopAddress] = stack[Len(stack) - 1]
              /\ \A a \in (DOMAIN memory) \ {TopAddress} : memory'[a] = memory[a])
         ]_vars
    /\ [](\A x \in {0, 11}, a \in {0, 5, 0 - 1}, b \in {0, 5, 0 - 1} :
            (/\ code = StoreLoadProgram(x, a, b)
             /\ FirstRunOver
             /\ fetched.any)
            => (/\ result = Ok
                /\ halted
                /\ stack = <<IF a = b THEN Bytes(<<2>>) ELSE I32(x), Bytes(<<2>>)>>
                /\ DOMAIN memory = {I32AsUsize(a), I32AsUsize(b)}
                /\ memory[I32AsUsize(b)] = Bytes(<<2>>)
                /\ a # b => memory[I32AsUsize(a)] = I32(x)))

\* 11 stored at -1 and <<2>> at 0, and both loaded
C24_Witness ==
    /\ code = StoreLoadProgram(11, 0 - 1, 0)
    /\ FirstRunOver
    /\ halted
    /\ stack = <<I32(11), Bytes(<<2>>)>>
    /\ memory[I32AsUsize(0 - 1)] = I32(11)
    /\ memory[I32AsUsize(0)] = Bytes(<<2>>)

(***************************************************************************)
(* C25.  Load of an address that memory does not hold fails with           *)
(* InvalidAddress(address): the address is popped, nothing is pushed,      *)
(* and the address 0 is no exception.                                      *)
(***************************************************************************)
C25_LoadAbsent ==
    [][(AboutToRun(OP_Load) /\ AddressOnTop /\ TopAddress \notin DOMAIN memory)
       => (/\ result' = InvalidAddress(TopAddress)
           /\ ~running'
           /\ ~aborted'
           /\ stack' = SubSeq(stack, 1, Len(stack) - 1)
           /\ memory' = memory)
      ]_vars

\* with 11 stored at 5, the load of address 0 has failed
C25_Witness ==
    /\ last_op = "execute"
    /\ ~running
    /\ fetched.byte = OP_Load
    /\ DOMAIN memory = {I32AsUsize(5)}
    /\ result = InvalidAddress(I32AsUsize(0))
    /\ stack = <<>>

(***************************************************************************)
(* C26.  Load pushes the value of the address and leaves memory as it is;  *)
(* memory changes in a Store step only, so that whatever is done to a      *)
(* loaded copy, the next Load of the address pushes the same value.        *)
(***************************************************************************)
C26_LoadCopies ==
    /\ [][/\ (AboutToRun(OP_Load) /\ AddressOnTop /\ TopAddress \in DOMAIN memory)
             => (/\ running'
                 /\ stack' = Append(SubSeq(stack, 1, Len(stack) - 1),
                                    memory[TopAddress])
                 /\ memory' = memory)
          /\ memory' # memory => AboutToRun(OP_Store)
         ]_vars
    /\ []((code = StoreLoadTwiceProgram /\ FirstRunOver /\ fetched.any)
          => (/\ result = Ok
              /\ halted
              /\ stack = <<I32(11)>>
              /\ memory[I32AsUsize(5)] = I32(11)))

\* the third load of address 5, after two copies were added and the sum
\* popped
C26_Witness ==
    /\ code = StoreLoadTwiceProgram
    /\ FirstRunOver
    /\ halted
    /\ stack = <<I32(11)>>
    /\ memory[I32AsUsize(5)] = I32(11)

(***************************************************************************)
(* The accessors of impl Value, applied by the host to a value it holds,   *)
(* beside programs that hand a Bool to an arithmetic instruction and an    *)
(* I32 to JumpIf.                                                          *)
(***************************************************************************)
MaxLoadsValue == 1

\* QuantumVM::new(), and a value of one of the four variants
InitValue ==
    /\ stack = QuantumVM_new.stack
    /\ memory = QuantumVM_new.memory
    /\ code = QuantumVM_new.code
    /\ data = QuantumVM_new.data
    /\ pc = QuantumVM_new.pc
    /\ call_stack = QuantumVM_new.call_stack
    /\ halted = QuantumVM_new.halted
    /\ printed = <<>>
    /\ pqc = <<>>
    /\ overflow_checks \in BOOLEAN
    /\ running = FALSE
    /\ aborted = FALSE
    /\ last_op = "new"
    /\ result = Ok
    /\ bytecode = <<>>
    /\ fetched = NoFetch
    /\ loads = 0
    /\ runs = 0
    /\ value \in {I32(v) : v \in {I32_MIN, 0 - 1, 0, 1, 7, I32_MAX}}
                 \cup {I64(v) : v \in {W(0), W(1), <<0, 0, 1, 0>>,
                                       <<Limb - 1, Limb - 1, Limb - 1, Limb - 1>>,
                                       <<0, 0, 0, Limb \div 2>>,
                                       <<Limb - 1, Limb - 1, Limb - 1, (Limb \div 2) - 1>>}}
                 \cup {Bytes(v) : v \in {<<>>, <<0>>, <<1>>, <<1, 2>>}}
                 \cup {Bool(v) : v \in BOOLEAN}
    /\ other = OtherNew

\* value.as_i32(), value.as_i64(), value.as_bytes() or value.as_bool()
Access(accessor) ==
    /\ ~running
    /\ ~aborted
    /\ last_op' = accessor
    /\ result' = CASE accessor = "as_i32" -> as_i32(value)
                   [] accessor = "as_i64" -> as_i64(value)
                   [] accessor = "as_bytes" -> as_bytes(value)
                   [] accessor = "as_bool" -> as_bool(value)
    /\ UNCHANGED <<stack, memory, code, data, pc, call_stack, halted, printed,
                   pqc, overflow_checks, running, aborted, bytecode, fetched,
                   loads, runs, value, other>>

NextValue ==
    \/ \E accessor \in {"as_i32", "as_i64", "as_bytes", "as_bool"} : Access(accessor)
    \/ \E c \in {Push(1) \o Push(1) \o <<OP_Eq>> \o Push(2) \o <<op, OP_Halt>> :
                   op \in {OP_Add, OP_Sub, OP_Mul, OP_Div}}
                \cup {Push(2) \o Push(1) \o Push(1) \o <<OP_Eq, op, OP_Halt>> :
                        op \in {OP_Add, OP_Sub, OP_Mul, OP_Div}}
                \cup {Push(n) \o JumpIf(11) \o <<OP_Halt, OP_Halt>> :
                        n \in {0, 5, 0 - 1}} :
         LoadBytecode(Blob(c, <<>>), MaxLoadsValue)
    \/ ExecuteCall
    \/ Step
    \/ ExecuteReturn

SpecValue == InitValue /\ [][NextValue]_vars

(***************************************************************************)
(* C27.  Each accessor succeeds on its own variant with the content of     *)
(* the value; as_i64 also succeeds on an I32, with the same signed         *)
(* number, and as_bool on an I32, with true exactly when it is not zero;   *)
(* every other pair fails with the accessor's type error.  So a Bool as    *)
(* an operand of Add, Sub, Mul or Div fails, and an I32 as the condition   *)
(* of JumpIf is taken.                                                     *)
(***************************************************************************)
\* the 64-bit pattern w denotes the number n of the i32 range
SameNumber(w, n) ==
    /\ \/ w[3] = 0 /\ w[4] = 0 /\ w[2] < Limb \div 2
       \/ w[3] = Limb - 1 /\ w[4] = Limb - 1 /\ w[2] >= Limb \div 2
    /\ I32FromHalves(w[2], w[1]) = n

Mismatch(expected) ==
    /\ ~result.ok
    /\ result.err = RuntimeError(expected)

C27_Accessors ==
    /\ [](/\ last_op = "as_i32"
             => IF value.tag = "I32" THEN result.ok /\ result.val = value.int
                ELSE Mismatch("Expected i32")
          /\ last_op = "as_i64"
             => CASE value.tag = "I64" -> result.ok /\ result.val = value.wide
                  [] value.tag = "I32" ->
                       result.ok /\ SameNumber(result.val, value.int)
                  [] OTHER -> Mismatch("Expected i64")
          /\ last_op = "as_bytes"
             => IF value.tag = "Bytes" THEN result.ok /\ result.val = value.bytes
                ELSE Mismatch("Expected bytes")
          /\ last_op = "as_bool"
             => CASE value.tag = "Bool" -> result.ok /\ result.val = value.bool
                  [] value.tag = "I32" ->
                       result.ok /\ result.val = (value.int # 0)
                  [] OTHER -> Mismatch("Expected bool"))
    /\ [][/\ (/\ running /\ ~halted /\ pc < Len(code)
              /\ At(code, pc) \in {OP_Add, OP_Sub, OP_Mul, OP_Div}
              /\ Len(stack) >= 2
              /\ \/ stack[Len(stack)].tag = "Bool"
                 \/ /\ stack[Len(stack)].tag = "I32"
                    /\ stack[Len(stack) - 1].tag = "Bool")
             => (/\ result' = RuntimeError("Expected i32")
                 /\ ~running'
                 /\ ~aborted')
          /\ (/\ AboutToRun(OP_JumpIf)
              /\ pc + 5 <= Len(code)
              /\ Len(stack) >= 1
              /\ stack[Len(stack)].tag = "I32"
              /\ WLt(OperandAt(pc), W(Len(code))))
             => (/\ running'
                 /\ result' = Pending
                 /\ stack[Len(stack)].int # 0 => W(pc') = OperandAt(pc)
                 /\ stack[Len(stack)].int = 0 => pc' = pc + 5)
         ]_vars

\* as_bool of I32(-1) has returned true
C27_Witness ==
    /\ last_op = "as_bool"
    /\ value = I32(0 - 1)
    /\ result.ok
    /\ result.val = TRUE
    /\ result.err = Ok

(***************************************************************************)
(* C28.  When load_bytecode returns Ok, whatever the VM did before, the    *)
(* program counter is 0, the halted flag is unset and the code is that of  *)
(* the blob; the first instruction the next execute call fetches is the    *)
(* one at offset 0 of that code.                                           *)
(***************************************************************************)
C28_LoadResets ==
    /\ []((LoadReturned /\ result = Ok)
          => (/\ pc = 0
              /\ ~halted
              /\ bytecode = Blob(code, <<>>)))
    /\ [][(/\ bytecode = Blob(code, <<>>)
           /\ running
           /\ runs = 1
           /\ ~fetched.any
           /\ fetched'.any)
          => (/\ fetched'.at = 0
              /\ fetched'.byte = bytecode[HEADER_LEN + 1])
         ]_vars

\* Call 5; Halt has halted the VM with a return address left behind; Push 3
\* was loaded over it and its Push has run
C28_Witness ==
    /\ loads = 2
    /\ runs = 1
    /\ call_stack = <<5>>
    /\ code = Push(3)
    /\ fetched = [at |-> 0, byte |-> OP_Push, any |-> TRUE]
    /\ stack = <<I32(3)>>
    /\ ~halted

(***************************************************************************)
(* C29.  When an instruction fails, execute returns its error at once:     *)
(* the failing step ends the call with that error as its result, and       *)
(* until the host calls again nothing of the VM changes, so that no        *)
(* instruction is run again and none behind it is run.                     *)
(***************************************************************************)
C29_ErrorReturns ==
    /\ []((last_op = "execute" /\ IsErr(result)) => ~running)
    /\ [][(running /\ IsErr(result'))
          => (/\ ~running'
              /\ ~halted /\ pc < Len(code)
              /\ fetched' = [at |-> pc, byte |-> At(code, pc), any |-> TRUE]
              /\ runs' = runs)
         ]_vars
    /\ [][(/\ last_op = "execute"
           /\ IsErr(result)
           /\ runs' = runs
           /\ loads' = loads)
          => UNCHANGED <<stack, memory, code, data, pc, call_stack, halted,
                         printed, pqc, result, fetched>>
         ]_vars

\* Push 5; Push 0; Div; Halt has returned the error of the Div, and the
\* Halt behind it was not run
C29_Witness ==
    /\ last_op = "execute"
    /\ ~running
    /\ code = Push(5) \o Push(0) \o <<OP_Div, OP_Halt>>
    /\ result = RuntimeError("Division by zero")
    /\ fetched = [at |-> 10, byte |-> OP_Div, any |-> TRUE]
    /\ pc = 11
    /\ ~halted

(***************************************************************************)
(* C30.  The VM writes a line only in a Print that succeeds: such a Print  *)
(* pops one value and writes exactly one line, for that value; a Print on  *)
(* an empty stack fails with StackUnderflow and writes nothing; and no     *)
(* step that returns an error writes anything.                             *)
(***************************************************************************)
C30_PrintOnly ==
    [][/\ printed' # printed
          => (/\ AboutToRun(OP_Print)
              /\ Len(stack) >= 1
              /\ running'
              /\ result' = Pending)
       /\ (AboutToRun(OP_Print) /\ Len(stack) >= 1)
          => (/\ running'
              /\ printed' = Append(printed, stack[Len(stack)])
              /\ stack' = SubSeq(stack, 1, Len(stack) - 1))
       /\ (AboutToRun(OP_Print) /\ Len(stack) = 0)
          => (/\ result' = StackUnderflow
              /\ ~running'
              /\ ~aborted'
              /\ printed' = printed)
       /\ (running /\ IsErr(result')) => printed' = printed
      ]_vars

\* the bytes <<2>> and the integer 1 were printed, in this order, and the
\* third Print has failed
C30_Witness ==
    /\ last_op = "execute"
    /\ ~running
    /\ code = Push(1) \o LoadImm(<<2>>) \o <<OP_Print, OP_Print, OP_Print, OP_Halt>>
    /\ printed = <<Bytes(<<2>>), I32(1)>>
    /\ result = StackUnderflow
    /\ fetched = [at |-> 13, byte |-> OP_Print, any |-> TRUE]
    /\ stack = <<>>

(***************************************************************************)
(* Two instances in one process, each driven by its own thread: the calls  *)
(* and the loop turns of the two interleave in every order.                *)
(***************************************************************************)
\* store, load and print; a call that leaves its return address; an
\* error; a sum that does not fit an i32, which ends the thread of its
\* instance in a build with overflow checks
TwoPrograms ==
    {Push(11) \o Push(5) \o <<OP_Store>> \o Push(5) \o <<OP_Load, OP_Print, OP_Halt>>,
     Push(7) \o Call(11) \o <<OP_Halt, OP_Halt>>,
     Push(1) \o <<OP_Pop, OP_Pop, OP_Halt>>,
     Push(I32_MAX) \o Push(1) \o <<OP_Add, OP_Halt>>}

MaxLoadsTwo == 1

\* one instance alone
NextOne ==
    \/ \E c \in TwoPrograms : LoadBytecode(Blob(c, <<>>), MaxLoadsTwo)
    \/ ExecuteCall
    \/ Step
    \/ ExecuteReturn

\* other.load_bytecode(&b), at most `max` times
OtherLoadBytecode(b, max) ==
    /\ ~other.running
    /\ ~other.aborted
    /\ other.loads < max
    /\ other' = [other EXCEPT
                   !.vm = load_bytecode(other.vm, b).vm,
                   !.result = load_bytecode(other.vm, b).res,
                   !.aborted = (load_bytecode(other.vm, b).res.kind = "Panic"),
                   !.last_op = "load_bytecode",
                   !.bytecode = b,
                   !.loads = @ + 1,
                   !.runs = 0]
    /\ UNCHANGED vars

\* other.execute() is entered
OtherExecuteCall ==
    /\ ~other.running
    /\ ~other.aborted
    /\ other.runs < MaxRuns
    /\ other' = [other EXCEPT
                   !.running = TRUE,
                   !.last_op = "execute",
                   !.result = Pending,
                   !.runs = @ + 1,
                   !.fetched = NoFetch]
    /\ UNCHANGED vars

\* what a loop turn of other.execute() makes of the second instance
OtherStepped(r) ==
    [other EXCEPT
       !.vm = r.vm,
       !.result = (IF r.res = Ok THEN Pending ELSE r.res),
       !.running = (r.res = Ok),
       !.aborted = (r.res.kind = "Panic"),
       !.fetched = [at |-> other.vm.pc, byte |-> At(other.vm.code, other.vm.pc),
                    any |-> TRUE]]

\* OtherStep with the fault of one memory map held by both instances
OtherStep_sharing ==
    /\ other.running
    /\ ~other.vm.halted /\ other.vm.pc < Len(other.vm.code)
    /\ \E secret \in (IF At(other.vm.code, other.vm.pc) = OP_KyberKeyExchange
                      THEN Secrets ELSE {<<>>}) :
         other' = OtherStepped(execute_instruction(
                      other.vm, [overflow_checks |-> overflow_checks,
                                 secret |-> secret]))
    /\ memory' = other'.vm.memory
    /\ UNCHANGED <<stack, code, data, pc, call_stack, halted, printed, pqc,
                   overflow_checks, running, aborted, last_op, result, bytecode,
                   fetched, loads, runs, value>>

\* one turn of the loop of other.execute()
OtherStep ==
    /\ other.running
    /\ ~other.vm.halted /\ other.vm.pc < Len(other.vm.code)
    /\ \E secret \in (IF At(other.vm.code, other.vm.pc) = OP_KyberKeyExchange
                      THEN Secrets ELSE {<<>>}) :
         other' = OtherStepped(execute_instruction(
                      other.vm, [overflow_checks |-> overflow_checks,
                                 secret |-> secret]))
    /\ UNCHANGED vars

\* the loop of other.execute() ends
OtherExecuteReturn ==
    /\ other.running
    /\ ~(~other.vm.halted /\ other.vm.pc < Len(other.vm.code))
    /\ other' = [other EXCEPT !.running = FALSE, !.result = Ok]
    /\ UNCHANGED vars

NextTwo ==
    \/ NextOne
    \/ \E c \in TwoPrograms : OtherLoadBytecode(Blob(c, <<>>), MaxLoadsTwo)
    \/ OtherExecuteCall
    \/ OtherStep
    \/ OtherExecuteReturn

SpecTwo == Init /\ [][NextTwo]_<<vars, other>>

Signed(msg) == dilithium_sign(msg, dilithium_keygen.secret_key)

SignedProgram(msg, sig) ==
    Blob(VerifyProgram(OP_DilithiumVerify, dilithium_keygen.public_key, msg, sig),
         <<>>)

C32_DilithiumVerify ==
    \A msg \in Messages :
        /\ (FirstRunOver /\ bytecode = SignedProgram(msg, Signed(msg)))
           => (result = Ok /\ stack = <<Bool(TRUE)>>)
        /\ \A at \in {1, DILITHIUM_SIGNATURE_BYTES} :
             (/\ FirstRunOver
              /\ bytecode = SignedProgram(msg, [Signed(msg) EXCEPT ![at] = 1]))
             => (result = Ok /\ stack = <<Bool(FALSE)>>)

(***************************************************************************)
(* C33.  As claimed: the assembler makes of the code and the data that     *)
(* load_bytecode took from an accepted blob the same blob, byte for byte.  *)
(***************************************************************************)
C33_RoundTrip ==
    (LoadReturned /\ result = Ok) => Blob(code, data) = bytecode

\* the blob has the version and the header length the assembler writes, and
\* ends with its data section
AsAssembled(b) ==
    /\ At(b, 4) = 1
    /\ DeclaredHeader(b) = HEADER_LEN
    /\ Len(b) = HEADER_LEN + DeclaredCode(b) + DeclaredData(b)

(***************************************************************************)
(* C33, amended.  The assembler makes of the code and the data that        *)
(* load_bytecode took from an accepted blob the same blob exactly when     *)
(* the blob has the assembler's version byte and header length and no      *)
(* byte behind its data section.                                           *)
(***************************************************************************)
C33_RoundTripAsAssembled ==
    (LoadReturned /\ result = Ok)
    => ((Blob(code, data) = bytecode) <=> AsAssembled(bytecode))

\* a blob of one byte of code and none of data was loaded, and is what the
\* assembler builds of the two sections
C33_Witness ==
    /\ LoadReturned
    /\ result = Ok
    /\ AsAssembled(bytecode)
    /\ code = <<OP_Halt>>
    /\ data = <<>>
    /\ Blob(code, data) = bytecode

(***************************************************************************)
(* C34.  Swap exchanges the two entries on top of the stack and Dup adds   *)
(* a copy of the top; neither changes an entry below.  Two Swaps in a      *)
(* row, and Dup followed by Pop, leave the stack as it was.                *)
(***************************************************************************)
C34_SwapAndDup ==
    /\ [][/\ (AboutToRun(OP_Swap) /\ Len(stack) >= 2)
             => (/\ running'
                 /\ stack' = SubSeq(stack, 1, Len(stack) - 2)
                               \o <<stack[Len(stack)], stack[Len(stack) - 1]>>)
          /\ (AboutToRun(OP_Dup) /\ Len(stack) >= 1 /\ Len(stack) < 1000)
             => (/\ running'
                 /\ stack' = Append(stack, stack[Len(stack)]))
          /\ (/\ running /\ fetched.any /\ fetched.byte = OP_Swap
              /\ AboutToRun(OP_Swap) /\ Len(stack) = 3)
             => stack' = <<I32(1), Bytes(<<2>>), I32(3)>>
          /\ (/\ running /\ fetched.any /\ fetched.byte = OP_Dup
              /\ AboutToRun(OP_Pop) /\ Len(stack) = 3)
             => stack' = <<I32(1), Bytes(<<2>>)>>
         ]_vars

\* the second of two Swaps has put 3 back above the bytes <<2>>
C34_Witness ==
    /\ running
    /\ code = Push(1) \o LoadImm(<<2>>) \o Push(3) \o <<OP_Swap, OP_Swap, OP_Halt>>
    /\ fetched = [at |-> 17, byte |-> OP_Swap, any |-> TRUE]
    /\ stack = <<I32(1), Bytes(<<2>>), I32(3)>>

(***************************************************************************)
(* C35.  A load_bytecode call that succeeds changes the code, the data,    *)
(* the program counter and the halted flag, and nothing else: stack,       *)
(* memory and call stack are those the run before left, and the next       *)
(* program starts with them.                                               *)
(***************************************************************************)
C35_LoadKeepsState ==
    [][/\ (loads' = loads + 1 /\ result' = Ok)
          => UNCHANGED <<stack, memory, call_stack, printed, pqc>>
       /\ (~running /\ running')
          => UNCHANGED <<stack, memory, call_stack, pc, halted>>
      ]_vars

\* Push 3 was loaded over the program that left 9 on the stack, 1 at the
\* address 5 and the return address 21, and has pushed its 3 on top
C35_Witness ==
    /\ loads = 2
    /\ runs = 1
    /\ code = Push(3)
    /\ fetched = [at |-> 0, byte |-> OP_Push, any |-> TRUE]
    /\ stack = <<I32(9), I32(3)>>
    /\ DOMAIN memory = {I32AsUsize(5)}
    /\ memory[I32AsUsize(5)] = I32(1)
    /\ call_stack = <<21>>

(***************************************************************************)
(* C36.  A load_bytecode call that returns an error changes nothing: code, *)
(* data, program counter, halted flag, stack, memory and call stack are    *)
(* as they were before the call.                                           *)
(***************************************************************************)
C36_FailedLoadKeepsAll ==
    [][(loads' = loads + 1 /\ result' # Ok)
       => (/\ result'.kind = "InvalidBytecode"
           /\ ~aborted'
           /\ UNCHANGED <<stack, memory, code, data, pc, call_stack, halted,
                          printed, pqc>>)
      ]_vars

\* a blob with less code than it declares was refused by the VM that had
\* halted with a stack entry, a stored value and a return address
C36_Witness ==
    /\ LoadReturned
    /\ loads = 2
    /\ result = InvalidBytecode("Bytecode too short")
    /\ halted
    /\ pc = 22
    /\ code = Push(9) \o Push(1) \o Push(5) \o <<OP_Store>> \o Call(21) \o <<OP_Halt>>
    /\ stack = <<I32(9)>>
    /\ memory[I32AsUsize(5)] = I32(1)
    /\ call_stack = <<21>>

(***************************************************************************)
(* C37.  A Call whose target is out of range, or whose operand is cut      *)
(* short, leaves the call stack as it is; a Call that succeeds adds one    *)
(* return address; and the call stack changes in no other way than by the  *)
(* one push of a Call and the one pop of a Return.                         *)
(***************************************************************************)
\* the Call at the pc has its whole operand, and the target is in the code
CallInRange ==
    pc + 5 <= Len(code) /\ WLt(OperandAt(pc), W(Len(code)))

C37_CallStackChanges ==
    [][/\ (AboutToRun(OP_Call) /\ ~CallInRange)
          => (/\ UNCHANGED call_stack
              /\ ~running'
              /\ result'.kind \in {"InvalidAddress", "InvalidBytecode"})
       /\ (AboutToRun(OP_Call) /\ CallInRange)
          => (/\ Len(call_stack') = Len(call_stack) + 1
              /\ SubSeq(call_stack', 1, Len(call_stack)) = call_stack)
       /\ (call_stack' # call_stack)
          => (\/ AboutToRun(OP_Call) /\ call_stack' = Append(call_stack, pc + 5)
              \/ /\ AboutToRun(OP_Return)
                 /\ call_stack # <<>>
                 /\ call_stack' = SubSeq(call_stack, 1, Len(call_stack) - 1))
      ]_vars

\* Pop; Call 9; Halt was loaded over the return address 21 of the run
\* before: the Call to the address 9 of 7 bytes of code has failed, and the
\* call stack holds the 21 and nothing more
C37_Witness ==
    /\ loads = 2
    /\ code = <<OP_Pop>> \o Call(9) \o <<OP_Halt>>
    /\ fetched = [at |-> 1, byte |-> OP_Call, any |-> TRUE]
    /\ ~running
    /\ result = InvalidAddress(W(9))
    /\ pc = 6
    /\ call_stack = <<21>>

(***************************************************************************)
(* C38.  An instruction other than Jump, JumpIf, Call and Return moves the *)
(* program counter forward, by at least one byte and not past the end of   *)
(* the code, whether it succeeds or fails; a byte that is no opcode ends   *)
(* execute with an error where it is.  So the instructions of one execute  *)
(* call on a program without those four are fetched at strictly increasing *)
(* offsets below code.len(), and there are at most code.len() of them.     *)
(***************************************************************************)
JumpOps == {OP_Jump, OP_JumpIf, OP_Call, OP_Return}

\* the loop of execute is about to run one more instruction
AboutToStep == running /\ ~halted /\ pc < Len(code)

C38_PcIncreases ==
    [][(AboutToStep /\ At(code, pc) \notin JumpOps)
       => (/\ fetched'.any
           /\ fetched'.at = pc
           /\ IF At(code, pc) \in OpCodes
              THEN pc < pc' /\ pc' <= Len(code)
              ELSE /\ pc' = pc
                   /\ ~running'
                   /\ result' = InvalidInstruction(At(code, pc))
           /\ (fetched.any /\ fetched.byte \notin JumpOps)
              => fetched.at < fetched'.at)
      ]_vars

\* Push 1; LoadImm "\x02"; Dup; Pop; Halt, 14 bytes, has run its five
\* instructions and the Halt, the last byte, has left the pc at the end
C38_Witness ==
    /\ code = Push(1) \o LoadImm(<<2>>) \o <<OP_Dup, OP_Pop, OP_Halt>>
    /\ running
    /\ fetched = [at |-> 13, byte |-> OP_Halt, any |-> TRUE]
    /\ pc = 14
    /\ halted

(***************************************************************************)
(* C39.  An instruction that fails leaves the halted flag clear, and the   *)
(* VM keeps no mark of the error: the next execute call, with no load in   *)
(* between, starts at the pc the failed instruction left.  A byte that is  *)
(* no opcode left the pc on itself and fails again with the same error; an *)
(* instruction that failed after its fetch left the pc behind it, and the  *)
(* next execute runs what follows.                                         *)
(***************************************************************************)
\* execute has returned the error of an instruction, and nothing was loaded
\* since
ExecuteFailed ==
    ~running /\ ~aborted /\ last_op = "execute" /\ IsErr(result)

C39_ErrorThenResume ==
    [][\* the failing instruction
       /\ (running /\ IsErr(result'))
          => (/\ ~running'
              /\ ~halted'
              /\ fetched'.at = pc
              /\ IF fetched'.byte \in OpCodes THEN pc' > pc ELSE pc' = pc)
       \* the next call of execute
       /\ (ExecuteFailed /\ running')
          => (/\ UNCHANGED <<stack, memory, code, data, pc, call_stack, halted>>
              /\ ~halted'
              /\ fetched.any
              /\ IF fetched.byte \in OpCodes THEN pc' > fetched.at
                 ELSE pc' = fetched.at)
       \* its first instruction
       /\ (AboutToStep /\ ~fetched.any /\ runs = 2 /\ loads = 1)
          => (/\ fetched' = [at |-> pc, byte |-> At(code, pc), any |-> TRUE]
              /\ (At(code, pc) \notin OpCodes)
                 => (/\ result' = InvalidInstruction(At(code, pc))
                     /\ stack' = stack
                     /\ pc' = pc))
      ]_vars

\* Push 5; Push 0; Div; Halt: after the division by zero the second execute
\* has run the Halt at the offset 11
C39_Witness ==
    /\ code = Push(5) \o Push(0) \o <<OP_Div, OP_Halt>>
    /\ runs = 2
    /\ loads = 1
    /\ running
    /\ fetched = [at |-> 11, byte |-> OP_Halt, any |-> TRUE]
    /\ halted
    /\ pc = 12

=============================================================================
